---------------------------- MODULE Spec2Model ----------------------------
(***************************************************************************)
(* Uranus: wire-frame codec, Connection, command layer and the             *)
(* client/server request loop (database/uranus-s, database/uranus-c).      *)
(*                                                                         *)
(* A byte is modelled as a one-character string ("+", "\r", "a", ...); the *)
(* token "xFF" stands for the byte 0xFF, which never occurs in valid       *)
(* UTF-8.  A byte buffer, a Rust String and a Bytes value are sequences of *)
(* bytes.  Cursor positions are 0-based as in std::io::Cursor; sequences   *)
(* are 1-based, so the byte at cursor position p is src[p + 1].            *)
(***************************************************************************)
EXTENDS Integers, Sequences, FiniteSets, TLC

VARIABLES
    \* ---- codec specification (SpecCodec)
    mode,       \* "bytes": src was drawn directly; "frame": src is written from frame
    frame,      \* the frame handed to write_frame
    src,        \* the byte buffer handed to Frame::check / Frame::parse
    wr,         \* outcome of write_frame(frame)
    chk,        \* outcome of Frame::check(Cursor::new(src))
    prs,        \* outcome of Frame::parse(Cursor::new(src))
    \* ---- one Connection reading from its peer (SpecConn)
    buffer,     \* Connection.buffer, the receive buffer
    wire,       \* bytes the peer has written that read_buf has not yet returned
    closed,     \* the peer has closed its end of the stream
    rpc,        \* read_frame: "idle" (not in a call), "read" (awaiting read_buf),
                \* "dead" (a call returned Err or panicked)
    lastRead,   \* what the last read_buf of the current call returned; -1: none yet
    calls,      \* the outcomes of the read_frame calls so far, in call order
    sent,       \* the frames whose complete encoding the peer has written, in order
    truncated,  \* the peer wrote a strict prefix of an encoding and closed
    \* ---- command layer (SpecCmd)
    origin,     \* "cmd": cframe comes from cmd.into_frame(); "frame": cframe was drawn
    cmd,        \* the command rendered by into_frame
    cframe,     \* the frame handed to Command::from_frame
    cstage,     \* "cmd" (before into_frame), "frame" (before from_frame), "parsed"
    cres,       \* outcome of Command::from_frame(cframe)
    \* ---- clients and the server, per TCP connection (Spec)
    cpc,        \* Client: "init", "idle", "call" (top of read_frame's loop),
                \* "read" (awaiting read_buf), "panic", "closed" (dropped)
    cop,        \* the client call in progress: its name and argument
    cbuf,       \* the client Connection's receive buffer
    results,    \* what the client's calls returned, in call order
    requests,   \* the frames the client has written, in order
    c2s,        \* bytes in flight from the client to the server
    s2c,        \* bytes in flight from the server to the client
    hpc,        \* Handler: "none" (not accepted), "call" (top of read_frame's loop),
                \* "read" (awaiting read_buf), "done", "err", "panic"
    sbuf,       \* the handler Connection's receive buffer
    received,   \* the frames the handler's read_frame returned, in order
    replies,    \* the frames the handler has written, in order
    reset,      \* the connection was reset: bytes reached an end already closed
    \* ---- one Connection writing to its peer (SpecWrite)
    wbuf,       \* bytes held by the BufWriter (Connection.stream), not yet flushed
    sock,       \* bytes written to the socket that the peer has not yet read
    got,        \* bytes the peer has read, in arrival order
    wlog,       \* the write_frame calls so far: the frame and the outcome
    wpc,        \* "idle": write_frame may be called; "dead": a call panicked
    wgone,      \* the peer has closed the stream
    \* ---- the arena linked list (SpecList)
    list,       \* the LinkedList: head, tail, data_nodes, free
    before,     \* the LinkedList as it was when the last operation was called
    lop,        \* the last operation: its name, argument, outcome
    given,      \* for each index handed out and not yet removed, the value pushed
    created,    \* number of Nodes::new_node calls so far
    \* ---- callers of the list that are followed call by call (SpecRun, SpecIter)
    hist,       \* the calls made on the list so far, each with its outcome
    iter,       \* the LinkedListIter in use: list, head, tail, len; <<>>: none
    fwd,        \* the indices next() has yielded, in order
    bwd,        \* the indices next_back() has yielded, in order
    ipc         \* "run": the iterator can be called; "panic": a call panicked

codecVars == <<mode, frame, src, wr, chk, prs>>
connVars  == <<buffer, wire, closed, rpc, lastRead, calls, sent, truncated>>

cmdVars   == <<origin, cmd, cframe, cstage, cres>>

e2eVars   == <<cpc, cop, cbuf, results, requests, c2s, s2c, hpc, sbuf, received,
                replies, reset>>

writeVars == <<wbuf, sock, got, wlog, wpc, wgone>>

listVars  == <<list, before, lop, given, created>>

useVars   == <<hist, iter, fwd, bwd, ipc>>

vars == <<codecVars, connVars, cmdVars, e2eVars, writeVars, listVars, useVars>>

\* what each specification leaves alone
outsideCodec == <<connVars, cmdVars, e2eVars, writeVars, listVars, useVars>>
outsideConn  == <<codecVars, cmdVars, e2eVars, writeVars, listVars, useVars>>
outsideCmd   == <<codecVars, connVars, e2eVars, writeVars, listVars, useVars>>
outsideE2E   == <<codecVars, connVars, cmdVars, writeVars, listVars, useVars>>
outsideWrite == <<codecVars, connVars, cmdVars, e2eVars, listVars, useVars>>
outsideList  == <<codecVars, connVars, cmdVars, e2eVars, writeVars, useVars>>
outsideUse   == <<codecVars, connVars, cmdVars, e2eVars, writeVars>>

-----------------------------------------------------------------------------
(* Bytes *)

CR == "\r"
LF == "\n"
CRLF == <<CR, LF>>
BadByte == "xFF"

Digits == {"0", "1", "2", "3", "4", "5", "6", "7", "8", "9"}

DigitVal(b) ==
    CASE b = "0" -> 0 [] b = "1" -> 1 [] b = "2" -> 2 [] b = "3" -> 3
      [] b = "4" -> 4 [] b = "5" -> 5 [] b = "6" -> 6 [] b = "7" -> 7
      [] b = "8" -> 8 [] b = "9" -> 9

DigitOf(n) ==
    CASE n = 0 -> "0" [] n = 1 -> "1" [] n = 2 -> "2" [] n = 3 -> "3"
      [] n = 4 -> "4" [] n = 5 -> "5" [] n = 6 -> "6" [] n = 7 -> "7"
      [] n = 8 -> "8" [] n = 9 -> "9"

Min(S) == CHOOSE x \in S : \A y \in S : x <= y

\* All sequences over A of length at most n.
SeqsUpTo(A, n) == UNION {[1..k -> A] : k \in 0..n}

\* std::str::from_utf8 / String::from_utf8 succeed: every byte of the model's
\* alphabet is ASCII except BadByte.
IsUtf8(bytes) == \A i \in 1..Len(bytes) : bytes[i] # BadByte

-----------------------------------------------------------------------------
(* Frame *)

Text(s)    == [type |-> "Text",   val |-> s,    elems |-> <<>>]
Error(s)   == [type |-> "Error",  val |-> s,    elems |-> <<>>]
Binary(b)  == [type |-> "Binary", val |-> b,    elems |-> <<>>]
Array(es)  == [type |-> "Array",  val |-> <<>>, elems |-> es]
Null       == [type |-> "Null",   val |-> <<>>, elems |-> <<>>]

-----------------------------------------------------------------------------
(* Cursor helpers.  Each returns the new cursor position in pos. *)

get_u8_bump(buf, pos) ==
    IF pos >= Len(buf)
    THEN [some |-> FALSE, byte |-> "", pos |-> pos]
    ELSE [some |-> TRUE, byte |-> buf[pos + 1], pos |-> pos + 1]

\* Scans i in start..end (end = len - 1 exclusive) for "\r\n" at i, i + 1.  It is
\* only called after get_u8_bump returned a byte, so len >= 1.
get_line_bump(buf, pos) ==
    LET start == pos
        end   == Len(buf) - 1
        hits  == {i \in start..(end - 1) : buf[i + 1] = CR /\ buf[i + 2] = LF}
    IN  IF hits = {}
        THEN [some |-> FALSE, line |-> <<>>, pos |-> pos]
        ELSE LET i == Min(hits)
             IN  [some |-> TRUE, line |-> SubSeq(buf, start + 1, i), pos |-> i + 2]

RECURSIVE DigitsValue(_)
DigitsValue(ds) ==
    IF ds = <<>> THEN 0
    ELSE 10 * DigitsValue(SubSeq(ds, 1, Len(ds) - 1)) + DigitVal(ds[Len(ds)])

\* str::parse::<u64>: an optional '+', then at least one digit, nothing else.
\* (Overflow of u64 needs 20 digits, more than any line of the bounded model.)
parse_u64(line) ==
    LET ds == IF line # <<>> /\ line[1] = "+" THEN Tail(line) ELSE line
    IN  IF ds # <<>> /\ \A i \in 1..Len(ds) : ds[i] \in Digits
        THEN [ok |-> TRUE, val |-> DigitsValue(ds)]
        ELSE [ok |-> FALSE, val |-> 0]

get_decimal_bump(buf, pos) ==
    LET l == get_line_bump(buf, pos)
    IN  IF ~l.some THEN [ok |-> FALSE, err |-> "Incomplete", val |-> 0, pos |-> l.pos]
        ELSE IF ~IsUtf8(l.line)
             THEN [ok |-> FALSE, err |-> "Utf8Error", val |-> 0, pos |-> l.pos]
        ELSE LET n == parse_u64(l.line)
             IN  IF n.ok THEN [ok |-> TRUE, err |-> "", val |-> n.val, pos |-> l.pos]
                 ELSE [ok |-> FALSE, err |-> "ParseIntError", val |-> 0, pos |-> l.pos]

\* remaining() of the cursor
remaining(buf, pos) == Len(buf) - pos

skip(buf, pos, n) ==
    IF remaining(buf, pos) < n
    THEN [ok |-> FALSE, err |-> "Incomplete", pos |-> pos]
    ELSE [ok |-> TRUE, err |-> "", pos |-> pos + n]

-----------------------------------------------------------------------------
(* Results.  kind is "Some" (Ok(Some(_))), "None" (Ok(None)), "Err" (Err(_),  *)
(* named in err) or "Panic" (the call does not return: unwrap on None,       *)
(* unimplemented!(), todo!()).                                               *)

RSome(f, pos)   == [kind |-> "Some",  frame |-> f,    err |-> "",  pos |-> pos]
RNone(pos)      == [kind |-> "None",  frame |-> Null, err |-> "",  pos |-> pos]
RErr(e, pos)    == [kind |-> "Err",   frame |-> Null, err |-> e,   pos |-> pos]
RPanic(e, pos)  == [kind |-> "Panic", frame |-> Null, err |-> e,   pos |-> pos]
NotRun          == [kind |-> "NotRun", frame |-> Null, err |-> "", pos |-> 0]

-----------------------------------------------------------------------------
(* Frame::check *)

RECURSIVE check(_, _), checkElems(_, _, _)

\* for _ in 0..len { Frame::check(src)?; }  -- the Ok value of each element's
\* check, Some or None, is dropped; only Err propagates.
checkElems(buf, pos, len) ==
    IF len = 0 THEN RSome(Null, pos)
    ELSE LET r == check(buf, pos)
         IN  IF r.kind \in {"Err", "Panic"} THEN r
             ELSE checkElems(buf, r.pos, len - 1)

check(buf, pos) ==
    LET b == get_u8_bump(buf, pos)
    IN  IF ~b.some THEN RNone(b.pos)
        ELSE IF b.byte \in {"+", "-"}
             THEN LET l == get_line_bump(buf, b.pos)
                  IN  IF l.some THEN RSome(Null, l.pos) ELSE RNone(l.pos)
        ELSE IF b.byte = "*"
             THEN LET d == get_decimal_bump(buf, b.pos)
                  IN  IF ~d.ok THEN RErr(d.err, d.pos)
                      ELSE checkElems(buf, d.pos, d.val)
        ELSE IF b.byte = "$"
             THEN LET d == get_decimal_bump(buf, b.pos)
                  IN  IF ~d.ok THEN RErr(d.err, d.pos)
                      ELSE LET s == skip(buf, d.pos, d.val + 2)
                           IN  IF s.ok THEN RSome(Null, s.pos) ELSE RErr(s.err, s.pos)
        ELSE RPanic("unimplemented", b.pos)

-----------------------------------------------------------------------------
(* Frame::parse *)

RECURSIVE parse(_, _), parseElems(_, _, _, _)

\* for _ in 0..len { out.push(Frame::parse(src)?.unwrap()); }
parseElems(buf, pos, len, out) ==
    IF len = 0 THEN RSome(Array(out), pos)
    ELSE LET r == parse(buf, pos)
         IN  IF r.kind \in {"Err", "Panic"} THEN r
             ELSE IF r.kind = "None" THEN RPanic("unwrap on None", r.pos)
             ELSE parseElems(buf, r.pos, len - 1, Append(out, r.frame))

parse(buf, pos) ==
    LET b == get_u8_bump(buf, pos)
    IN  IF ~b.some THEN RNone(b.pos)
        ELSE IF b.byte = "+"
             THEN LET l == get_line_bump(buf, b.pos)
                  IN  IF ~l.some THEN RNone(l.pos)
                      ELSE IF ~IsUtf8(l.line) THEN RErr("FromUtf8Error", l.pos)
                      ELSE RSome(Text(l.line), l.pos)
        ELSE IF b.byte = "-"
             THEN LET l == get_line_bump(buf, b.pos)
                  IN  IF ~l.some THEN RErr("Incomplete", l.pos)
                      ELSE IF ~IsUtf8(l.line) THEN RErr("FromUtf8Error", l.pos)
                      ELSE RSome(Error(l.line), l.pos)
        ELSE IF b.byte = "*"
             THEN LET d == get_decimal_bump(buf, b.pos)
                  IN  IF ~d.ok THEN RErr(d.err, d.pos)
                      ELSE parseElems(buf, d.pos, d.val, <<>>)
        ELSE IF b.byte = "$"
             THEN LET d == get_decimal_bump(buf, b.pos)
                  IN  IF ~d.ok THEN RErr(d.err, d.pos)
                      ELSE LET n == d.val + 2
                           IN  IF remaining(buf, d.pos) < n THEN RErr("Incomplete", d.pos)
                               ELSE RSome(Binary(SubSeq(buf, d.pos + 1, d.pos + d.val)),
                                          d.pos + n)
        ELSE RPanic("unimplemented", b.pos)

-----------------------------------------------------------------------------
(* Connection::write_frame.  The outcome carries the bytes handed to the     *)
(* BufWriter before the call returned, failed or panicked.                   *)

WOk(bytes)       == [kind |-> "Ok",    err |-> "", bytes |-> bytes]
WErr(e, bytes)   == [kind |-> "Err",   err |-> e,  bytes |-> bytes]
WPanic(e, bytes) == [kind |-> "Panic", err |-> e,  bytes |-> bytes]
WNotRun          == [kind |-> "NotRun", err |-> "", bytes |-> <<>>]

RECURSIVE DecimalDigits(_)
\* write!(&mut buf, "{}", val): the decimal digits of val, no sign, no padding
DecimalDigits(val) ==
    IF val < 10 THEN <<DigitOf(val)>>
    ELSE Append(DecimalDigits(val \div 10), DigitOf(val % 10))

write_crlf == CRLF

write_decimal(val) == DecimalDigits(val) \o write_crlf

write_scalar(f) ==
    CASE f.type = "Text"   -> WOk(<<"+">> \o f.val \o write_crlf)
      [] f.type = "Error"  -> WOk(<<"-">> \o f.val \o write_crlf)
      [] f.type = "Binary" -> WOk(<<"$">> \o write_decimal(Len(f.val)) \o f.val \o write_crlf)
      [] f.type = "Null"   -> WPanic("todo", <<>>)
      [] f.type = "Array"  -> WErr("Recursive", <<>>)

RECURSIVE write_entries(_, _)
\* for entry in val { self.write_scalar(entry).await?; }
write_entries(val, done) ==
    IF val = <<>> THEN WOk(done)
    ELSE LET w == write_scalar(Head(val))
         IN  IF w.kind = "Ok" THEN write_entries(Tail(val), done \o w.bytes)
             ELSE [w EXCEPT !.bytes = done \o w.bytes]

write_frame(f) ==
    IF f.type = "Array"
    THEN write_entries(f.elems, <<"*">> \o write_decimal(Len(f.elems)))
    ELSE write_scalar(f)

-----------------------------------------------------------------------------
(* Connection::parse_frame on the receive buffer: the outcome and the buffer *)
(* left behind (self.buffer.advance(len), len being check's cursor).         *)

parse_frame(buf) ==
    LET c == check(buf, 0)
    IN  IF c.kind = "None" THEN [res |-> RNone(0), buffer |-> buf]
        ELSE IF c.kind \in {"Err", "Panic"} THEN [res |-> c, buffer |-> buf]
        ELSE LET len == c.pos
                 p   == parse(buf, 0)
             IN  IF p.kind \in {"Err", "Panic"} THEN [res |-> p, buffer |-> buf]
                 ELSE IF p.kind = "None"
                      THEN [res |-> RPanic("unwrap on None", p.pos), buffer |-> buf]
                 ELSE [res |-> RSome(p.frame, len),
                       buffer |-> SubSeq(buf, len + 1, Len(buf))]

-----------------------------------------------------------------------------
(* Command layer (command.rs) *)

Uppers == <<"A", "B", "C", "D", "E", "F", "G", "H", "I", "J", "K", "L", "M",
            "N", "O", "P", "Q", "R", "S", "T", "U", "V", "W", "X", "Y", "Z">>
Lowers == <<"a", "b", "c", "d", "e", "f", "g", "h", "i", "j", "k", "l", "m",
            "n", "o", "p", "q", "r", "s", "t", "u", "v", "w", "x", "y", "z">>

LowerByte(b) ==
    IF \E i \in 1..Len(Uppers) : Uppers[i] = b
    THEN Lowers[CHOOSE i \in 1..Len(Uppers) : Uppers[i] = b]
    ELSE b

\* faulty variant of to_lowercase: the name is matched as spelt
to_lowercase_AsSpelt(str) == str

\* str::to_lowercase on the ASCII strings of the model
to_lowercase(str) == [i \in 1..Len(str) |-> LowerByte(str[i])]

get_name  == <<"g", "e", "t">>
set_name  == <<"s", "e", "t">>
echo_name == <<"e", "c", "h", "o">>

\* Command::Set(Set {key, value}), Command::Get(Get {key}), Command::Echo(Echo {echo})
SetCmd(key, value) == [variant |-> "Set",  key |-> key,  value |-> value, echo |-> <<>>]
GetCmd(key)        == [variant |-> "Get",  key |-> key,  value |-> <<>>,  echo |-> <<>>]
EchoCmd(echo)      == [variant |-> "Echo", key |-> <<>>, value |-> <<>>,  echo |-> echo]
NoCmd              == [variant |-> "",     key |-> <<>>, value |-> <<>>,  echo |-> <<>>]

COk(c)   == [ok |-> TRUE,  err |-> "", cmd |-> c]
CErr(e)  == [ok |-> FALSE, err |-> e,  cmd |-> NoCmd]
CNotRun  == [ok |-> FALSE, err |-> "NotRun", cmd |-> NoCmd]

\* The parser's cursor is the sequence of tokens not yet taken.  next_string and
\* next_bytes return kind "Some" / "None" / "Err", the value and the tokens left.
next_string(tokens) ==
    IF tokens = <<>>
    THEN [kind |-> "None", val |-> <<>>, err |-> "", rest |-> tokens]
    ELSE CASE Head(tokens).type = "Text" ->
                [kind |-> "Some", val |-> Head(tokens).val, err |-> "", rest |-> Tail(tokens)]
           [] Head(tokens).type = "Binary" ->
                IF IsUtf8(Head(tokens).val)
                THEN [kind |-> "Some", val |-> Head(tokens).val, err |-> "",
                      rest |-> Tail(tokens)]
                ELSE [kind |-> "Err", val |-> <<>>, err |-> "Utf8Error", rest |-> Tail(tokens)]
           [] OTHER ->
                [kind |-> "Err", val |-> <<>>, err |-> "ArgNotText", rest |-> Tail(tokens)]

\* faulty variant of next_bytes: an element of any type is taken
next_bytes_AnyFrame(tokens) ==
    IF tokens = <<>>
    THEN [kind |-> "None", val |-> <<>>, err |-> "", rest |-> tokens]
    ELSE [kind |-> "Some", val |-> Head(tokens).val, err |-> "", rest |-> Tail(tokens)]

next_bytes(tokens) ==
    IF tokens = <<>>
    THEN [kind |-> "None", val |-> <<>>, err |-> "", rest |-> tokens]
    ELSE IF Head(tokens).type \in {"Binary", "Text"}
         THEN [kind |-> "Some", val |-> Head(tokens).val, err |-> "", rest |-> Tail(tokens)]
         ELSE [kind |-> "Err", val |-> <<>>, err |-> "ArgNotBinary", rest |-> Tail(tokens)]

\* faulty variant of exhausted: elements left over are accepted
exhausted_Lenient(tokens) == ""

exhausted(tokens) == IF tokens = <<>> THEN "" ELSE "UnexpectedFrame"

\* x? .ok_or(UnexpectedEOF)? : the error a step ends with, "" when it yields a value
StepErr(x) ==
    IF x.kind = "Err" THEN x.err ELSE IF x.kind = "None" THEN "UnexpectedEOF" ELSE ""

\* parse_frames of each command: ok, the command, the error, the tokens left
Set_parse_frames(tokens) ==
    LET key   == next_string(tokens)
        value == next_bytes(key.rest)
    IN  IF StepErr(key) # "" THEN [err |-> StepErr(key), cmd |-> NoCmd, rest |-> key.rest]
        ELSE IF StepErr(value) # ""
             THEN [err |-> StepErr(value), cmd |-> NoCmd, rest |-> value.rest]
        ELSE [err |-> "", cmd |-> SetCmd(key.val, value.val), rest |-> value.rest]

Get_parse_frames(tokens) ==
    LET key == next_string(tokens)
    IN  IF StepErr(key) # "" THEN [err |-> StepErr(key), cmd |-> NoCmd, rest |-> key.rest]
        ELSE [err |-> "", cmd |-> GetCmd(key.val), rest |-> key.rest]

Echo_parse_frames(tokens) ==
    LET echo == next_string(tokens)
    IN  IF StepErr(echo) # "" THEN [err |-> StepErr(echo), cmd |-> NoCmd, rest |-> echo.rest]
        ELSE [err |-> "", cmd |-> EchoCmd(echo.val), rest |-> echo.rest]

\* CommandParser::new
CommandParser_new(f) ==
    IF f.type = "Array" THEN [err |-> "", tokens |-> f.elems]
    ELSE [err |-> "ArgNotArray", tokens |-> <<>>]

from_frame(f) ==
    LET parser == CommandParser_new(f)
        name   == next_string(parser.tokens)
        command_name == to_lowercase(name.val)
        command == CASE command_name = get_name  -> Get_parse_frames(name.rest)
                     [] command_name = set_name  -> Set_parse_frames(name.rest)
                     [] command_name = echo_name -> Echo_parse_frames(name.rest)
                     [] OTHER -> [err |-> "UnknownCommand", cmd |-> NoCmd, rest |-> name.rest]
    IN  IF parser.err # "" THEN CErr(parser.err)
        ELSE IF StepErr(name) # "" THEN CErr(StepErr(name))
        ELSE IF command.err # "" THEN CErr(command.err)
        ELSE IF exhausted(command.rest) # "" THEN CErr(exhausted(command.rest))
        ELSE COk(command.cmd)

\* faulty variant of Set_into_frame: the value is rendered before the key
Set_into_frame_Swapped(c) == Array(<<Text(set_name), Binary(c.value), Text(c.key)>>)

Set_into_frame(c)  == Array(<<Text(set_name), Text(c.key), Binary(c.value)>>)
Get_into_frame(c)  == Array(<<Text(get_name), Text(c.key)>>)
Echo_into_frame(c) == Array(<<Text(echo_name), Text(c.echo)>>)

into_frame(c) ==
    CASE c.variant = "Set"  -> Set_into_frame(c)
      [] c.variant = "Get"  -> Get_into_frame(c)
      [] c.variant = "Echo" -> Echo_into_frame(c)

-----------------------------------------------------------------------------
(* Bounded inputs *)

MaxSrcLen   == 4    \* longest raw byte buffer handed to check / parse
MaxText     == 2    \* longest text / binary payload of a top-level scalar frame
MaxElemText == 1    \* longest payload of an array element
MaxArr      == 2    \* most elements of an array frame

SrcAlphabet  == {"+", "-", "*", "$", CR, LF, "1", "a"}
TextAlphabet == {"a", CR, LF}

ScalarFrames(n) ==
    {Text(s) : s \in SeqsUpTo(TextAlphabet, n)}
      \cup {Error(s) : s \in SeqsUpTo(TextAlphabet, n)}
      \cup {Binary(s) : s \in SeqsUpTo(TextAlphabet, n)}
      \cup {Null}

\* array elements: scalars, a text holding the line terminator and, for the
\* nested case, two small arrays
ElemFrames ==
    ScalarFrames(MaxElemText) \cup {Text(CRLF), Array(<<>>), Array(<<Text(<<"a">>)>>)}

Frames == ScalarFrames(MaxText) \cup {Array(es) : es \in SeqsUpTo(ElemFrames, MaxArr)}

RawBuffers == SeqsUpTo(SrcAlphabet, MaxSrcLen)

\* the bytes of arrays that hold an array, each with the frame they spell
Line(bytes) == bytes \o CRLF
NestedCases ==
    { [bytes |-> Line(<<"*", "1">>) \o Line(<<"*", "0">>),
       frame |-> Array(<<Array(<<>>)>>)],
      [bytes |-> Line(<<"*", "2">>) \o Line(<<"+", "e", "c", "h", "o">>) \o Line(<<"*", "0">>),
       frame |-> Array(<<Text(<<"e", "c", "h", "o">>), Array(<<>>)>>)],
      [bytes |-> Line(<<"*", "3">>) \o Line(<<"+", "e", "c", "h", "o">>) \o Line(<<"+", "a">>)
                    \o Line(<<"*", "0">>),
       frame |-> Array(<<Text(<<"e", "c", "h", "o">>), Text(<<"a">>), Array(<<>>)>>)],
      [bytes |-> Line(<<"*", "3">>) \o Line(<<"+", "s", "e", "t">>) \o Line(<<"+", "k">>)
                    \o Line(<<"*", "1">>) \o Line(<<"+", "a">>),
       frame |-> Array(<<Text(<<"s", "e", "t">>), Text(<<"k">>), Array(<<Text(<<"a">>)>>)>>)],
      [bytes |-> Line(<<"*", "2">>) \o Line(<<"+", "a">>) \o Line(<<"*", "0">>),
       frame |-> Array(<<Text(<<"a">>), Array(<<>>)>>)] }

NestedBuffers == {c.bytes : c \in NestedCases}

-----------------------------------------------------------------------------
(* SpecCodec: a frame is written and the written bytes are checked and       *)
(* parsed; or a raw buffer is checked and parsed.                            *)

WriteIdle ==
    /\ wbuf = <<>> /\ sock = <<>> /\ got = <<>> /\ wlog = <<>> /\ wpc = "off"
    /\ wgone = FALSE

UseIdle ==
    hist = <<>> /\ iter = <<>> /\ fwd = <<>> /\ bwd = <<>> /\ ipc = "off"

ListIdle ==
    /\ list = <<>> /\ before = <<>> /\ lop = <<>> /\ given = <<>> /\ created = 0
    /\ UseIdle

CmdIdle ==
    origin = "off" /\ cmd = NoCmd /\ cframe = Null /\ cstage = "off" /\ cres = CNotRun

E2EIdle ==
    /\ cpc = <<>> /\ cop = <<>> /\ cbuf = <<>> /\ results = <<>> /\ requests = <<>>
    /\ c2s = <<>> /\ s2c = <<>> /\ hpc = <<>> /\ sbuf = <<>> /\ received = <<>>
    /\ replies = <<>> /\ reset = <<>>

CodecIdle ==
    mode = "off" /\ frame = Null /\ src = <<>> /\ wr = WNotRun /\ chk = NotRun /\ prs = NotRun

ConnIdle ==
    /\ buffer = <<>> /\ wire = <<>> /\ closed = FALSE /\ rpc = "off"
    /\ lastRead = -1 /\ calls = <<>> /\ sent = <<>> /\ truncated = FALSE

CodecInit ==
    /\ ConnIdle
    /\ CmdIdle
    /\ E2EIdle
    /\ WriteIdle
    /\ ListIdle
    /\ chk = NotRun
    /\ prs = NotRun
    /\ \/ mode = "frame" /\ frame \in Frames /\ src = <<>> /\ wr = WNotRun
       \/ mode = "bytes" /\ frame = Null /\ src \in RawBuffers \cup NestedBuffers
          /\ wr = WOk(<<>>)

\* write_frame(frame); on Ok the flushed bytes are what the peer's cursor sees
WriteFrame ==
    /\ mode = "frame" /\ wr = WNotRun
    /\ wr' = write_frame(frame)
    /\ src' = IF wr'.kind = "Ok" THEN wr'.bytes ELSE src
    /\ UNCHANGED <<mode, frame, chk, prs, outsideCodec>>

CheckFrame ==
    /\ wr.kind = "Ok" /\ chk = NotRun
    /\ chk' = check(src, 0)
    /\ UNCHANGED <<mode, frame, src, wr, prs, outsideCodec>>

ParseFrame ==
    /\ wr.kind = "Ok" /\ prs = NotRun
    /\ prs' = parse(src, 0)
    /\ UNCHANGED <<mode, frame, src, wr, chk, outsideCodec>>

CodecNext == WriteFrame \/ CheckFrame \/ ParseFrame

SpecCodec == CodecInit /\ [][CodecNext]_vars

\* C2: whenever check from position 0 returns Some(()), parse from position 0 on
\* the same buffer returns Some(frame) and stops at the cursor position of check.
C2_CheckParseAgree ==
    (chk.kind = "Some" /\ prs # NotRun) => (prs.kind = "Some" /\ prs.pos = chk.pos)

\* C3: writing any frame (Text, Error, Binary, Null, Array of non-Array frames)
\* succeeds and decoding the written bytes yields the same frame.
NoNestedArray(f) == \A i \in 1..Len(f.elems) : f.elems[i].type # "Array"

C3_RoundTrip ==
    (mode = "frame" /\ NoNestedArray(frame)) =>
        /\ wr # WNotRun => wr.kind = "Ok"
        /\ chk # NotRun => chk.kind = "Some" /\ chk.pos = Len(src)
        /\ prs # NotRun => prs.kind = "Some" /\ prs.frame = frame

\* C11: write_frame on an Array frame one of whose elements is itself an Array
\* fails with FrameError::Recursive.
C11_NestedArrayRecursive ==
    (mode = "frame" /\ frame.type = "Array" /\ ~NoNestedArray(frame) /\ wr # WNotRun) =>
        (wr.kind = "Err" /\ wr.err = "Recursive")

\* '+', the text, CRLF for each element in order
RECURSIVE TextLines(_)
TextLines(elems) ==
    IF elems = <<>> THEN <<>>
    ELSE <<"+">> \o Head(elems).val \o <<CR, LF>> \o TextLines(Tail(elems))

AllText(f) == f.type = "Array" /\ \A i \in 1..Len(f.elems) : f.elems[i].type = "Text"

\* C12: an Array of n Text frames is encoded as '*', the decimal n, CRLF, then
\* '+', the text, CRLF for each element in element order, and parsing those bytes
\* returns an Array equal to the original.
C12_ArrayWireFormat ==
    (mode = "frame" /\ AllText(frame)) =>
        /\ wr # WNotRun =>
              wr = WOk(<<"*">> \o DecimalDigits(Len(frame.elems)) \o <<CR, LF>>
                         \o TextLines(frame.elems))
        /\ prs # NotRun => (prs.kind = "Some" /\ prs.frame = frame)


\* the frame the bytes in src spell, when src holds an array nested in an array
Spelt == (CHOOSE c \in NestedCases : c.bytes = src).frame

Decoded == mode = "bytes" /\ src \in NestedBuffers /\ chk # NotRun /\ prs # NotRun

\* check and parse take the bytes whole and return the frame, which
\* write_frame refuses to encode
DecodedNotEncoded ==
    /\ chk.kind = "Some" /\ chk.pos = Len(src)
    /\ prs.kind = "Some" /\ prs.pos = Len(src)
    /\ prs.frame = Spelt
    /\ \E i \in 1..Len(prs.frame.elems) : prs.frame.elems[i].type = "Array"
    /\ write_frame(prs.frame) # WNotRun
    /\ write_frame(prs.frame).kind = "Err" /\ write_frame(prs.frame).err = "Recursive"

\* the elements Command::from_frame reads: the name, and the arguments of the
\* command the name stands for
ReadUpTo(f) ==
    IF f.elems[1].type \notin {"Text", "Binary"} THEN 1
    ELSE IF to_lowercase(f.elems[1].val) = set_name THEN 3
    ELSE IF to_lowercase(f.elems[1].val) \in {get_name, echo_name} THEN 2
    ELSE 1

NestedIsRead(f) == \E i \in 1..Len(f.elems) : i <= ReadUpTo(f) /\ f.elems[i].type = "Array"

-----------------------------------------------------------------------------
(* SpecConn: one Connection whose caller calls read_frame again and again,   *)
(* while the peer writes encoded frames and closes.  read_buf returns any    *)
(* non-empty prefix of the bytes in flight (the stream has no message        *)
(* boundaries), or 0 once the peer has closed and nothing is in flight.      *)

MaxSent  == 2    \* frames the peer writes
MaxCalls == 3    \* read_frame calls of the caller

ConnFrames ==
    { Text(<<"a">>), Text(<<>>), Error(<<"a">>), Binary(<<"a">>),
      Array(<<Text(<<"a">>)>>), Array(<<Binary(<<"a">>), Text(<<"a">>)>>) }

\* The outcome of read_frame as the caller sees it (no cursor position).
Ret(r) == [r EXCEPT !.pos = 0]

\* faulty variant of read_eof: the is_empty test inverted
read_eof_Inverted(buf) ==
    IF buf # <<>> THEN RNone(0) ELSE RErr("connection reset by peer", 0)

\* read_buf returned 0: Ok(None) on an empty buffer, else the reset error
read_eof(buf) ==
    IF buf = <<>> THEN RNone(0) ELSE RErr("connection reset by peer", 0)

\* One turn of read_frame's loop up to the await on read_buf: parse_frame()?
\* returns the frame or the error, Ok(None) goes on to read.
ReadFrameTurn(buf) ==
    \E p \in {parse_frame(buf)} :
        /\ buffer' = p.buffer
        /\ IF p.res.kind = "None"
           THEN rpc' = "read" /\ calls' = calls
           ELSE /\ calls' = Append(calls, Ret(p.res))
                /\ rpc' = IF p.res.kind = "Some" THEN "idle" ELSE "dead"

ConnInit ==
    /\ CodecIdle
    /\ CmdIdle
    /\ E2EIdle
    /\ WriteIdle
    /\ ListIdle
    /\ buffer = <<>> /\ wire = <<>> /\ closed = FALSE /\ rpc = "idle"
    /\ lastRead = -1 /\ calls = <<>> /\ sent = <<>> /\ truncated = FALSE

\* the peer's write_frame(f) returned Ok: the whole encoding is in flight
PeerSend ==
    /\ ~closed /\ Len(sent) < MaxSent
    /\ \E f \in ConnFrames :
          /\ write_frame(f).kind = "Ok"
          /\ wire' = wire \o write_frame(f).bytes
          /\ sent' = Append(sent, f)
    /\ UNCHANGED <<buffer, closed, rpc, lastRead, calls, truncated, outsideConn>>

\* the peer goes away mid-frame: a strict, non-empty prefix of an encoding
PeerSendPart ==
    /\ ~closed
    /\ \E f \in ConnFrames : \E k \in 1..(Len(write_frame(f).bytes) - 1) :
          wire' = wire \o SubSeq(write_frame(f).bytes, 1, k)
    /\ closed' = TRUE
    /\ truncated' = TRUE
    /\ UNCHANGED <<buffer, rpc, lastRead, calls, sent, outsideConn>>

PeerClose ==
    /\ ~closed
    /\ closed' = TRUE
    /\ UNCHANGED <<buffer, wire, rpc, lastRead, calls, sent, truncated, outsideConn>>

\* read_frame is called: the first parse_frame on what the buffer holds
ReadFrameCall ==
    /\ rpc = "idle" /\ Len(calls) < MaxCalls
    /\ lastRead' = -1
    /\ ReadFrameTurn(buffer)
    /\ UNCHANGED <<wire, closed, sent, truncated, outsideConn>>

\* read_buf returns n > 0 bytes; the loop parses again
ReadBuf ==
    /\ rpc = "read"
    /\ \E n \in 1..Len(wire) :
          /\ wire' = SubSeq(wire, n + 1, Len(wire))
          /\ lastRead' = n
          /\ ReadFrameTurn(buffer \o SubSeq(wire, 1, n))
    /\ UNCHANGED <<closed, sent, truncated, outsideConn>>

\* read_buf returns 0
ReadEof ==
    /\ rpc = "read" /\ wire = <<>> /\ closed
    /\ lastRead' = 0
    /\ calls' = Append(calls, read_eof(buffer))
    /\ rpc' = IF read_eof(buffer).kind = "None" THEN "idle" ELSE "dead"
    /\ UNCHANGED <<buffer, wire, closed, sent, truncated, outsideConn>>

ConnNext == PeerSend \/ PeerSendPart \/ PeerClose \/ ReadFrameCall \/ ReadBuf \/ ReadEof

SpecConn == ConnInit /\ [][ConnNext]_vars

\* The bytes of the complete encodings of frames fs[from..], concatenated.
RECURSIVE EncodeFrom(_, _)
EncodeFrom(fs, from) ==
    IF from > Len(fs) THEN <<>>
    ELSE write_frame(fs[from]).bytes \o EncodeFrom(fs, from + 1)

ResetError == RErr("connection reset by peer", 0)

\* C1: when the encoding of a frame f arrives split at any byte boundary, read_frame
\* returns f, as it does when the bytes arrive at once; a buffer holding a strict
\* prefix of a frame never makes read_frame fail or abort.
C1_IncrementalDelivery ==
    ~truncated =>
        /\ rpc # "dead"
        /\ (Len(sent) >= 1 /\ Len(calls) >= 1) => calls[1] = RSome(sent[1], 0)

\* C4: when read_buf returns 0, read_frame returns None exactly when the receive
\* buffer is empty and the reset error exactly when the buffer still holds bytes,
\* and those bytes do not form a complete frame.
C4_EndOfStream ==
    lastRead = 0 =>
        /\ calls[Len(calls)].kind \in {"None", "Err"}
        /\ calls[Len(calls)] = RNone(0) <=> buffer = <<>>
        /\ calls[Len(calls)] = ResetError <=> buffer # <<>>
        /\ buffer # <<>> => check(buffer, 0).kind # "Some"

\* C4 witness: the peer closed mid-frame and read_frame returned the reset error.
C4_Witness ==
    /\ lastRead = 0 /\ buffer # <<>> /\ truncated
    /\ calls[Len(calls)] = ResetError

\* C5: the bytes received being the complete encodings of f1..fn, successive
\* read_frame calls return f1, ..., fn in order, each removing exactly the bytes of
\* its frame and keeping the later ones; after the peer closes the next call
\* returns None.
C5_Pipelining ==
    ~truncated =>
        /\ \A i \in 1..Len(calls) :
              /\ i <= Len(sent) => calls[i] = RSome(sent[i], 0)
              /\ i > Len(sent) => calls[i] = RNone(0) /\ closed
        /\ rpc = "idle" =>
              buffer \o wire = EncodeFrom(sent, Min({Len(calls), Len(sent)}) + 1)

-----------------------------------------------------------------------------
(* SpecCmd: a command is rendered with into_frame and parsed back with       *)
(* Command::from_frame; or a drawn frame is handed to Command::from_frame.   *)

MaxCmdArr == 4    \* most elements of a frame handed to from_frame
MaxKey    == 2    \* longest key / echo string of a rendered command
MaxValue  == 1    \* longest value of a rendered Set

\* command names as a client may spell them, and names of no command
Names ==
    { get_name, set_name, echo_name, <<"G", "E", "T">>, <<"S", "e", "t">>,
      <<"e", "C", "H", "O">>, <<"g", "e">>, <<"p", "u", "t">>, <<>> }

\* what may stand first in the array: names as Text or Binary, and frames that
\* are no string
NameElems ==
    {Text(n) : n \in Names} \cup {Binary(n) : n \in Names}
      \cup {Binary(<<BadByte>>), Error(get_name), Null, Array(<<>>)}

ArgElems ==
    { Text(<<"a">>), Text(<<>>), Binary(<<"b">>), Binary(<<BadByte>>),
      Error(<<"a">>), Null, Array(<<>>) }

CmdFrames ==
    {Text(get_name), Error(set_name), Binary(echo_name), Null, Array(<<>>)}
      \cup {Array(<<n>> \o args) :
                n \in NameElems, args \in SeqsUpTo(ArgElems, MaxCmdArr - 1)}

Commands ==
    {SetCmd(k, v) : k \in SeqsUpTo({"a", LF}, MaxKey), v \in SeqsUpTo({"b", BadByte}, MaxValue)}
      \cup {GetCmd(k) : k \in SeqsUpTo({"a", LF}, MaxKey)}
      \cup {EchoCmd(e) : e \in SeqsUpTo({"a", LF}, MaxKey)}

CmdInit ==
    /\ CodecIdle
    /\ ConnIdle
    /\ E2EIdle
    /\ WriteIdle
    /\ ListIdle
    /\ cres = CNotRun
    /\ \/ origin = "cmd" /\ cmd \in Commands /\ cframe = Null /\ cstage = "cmd"
       \/ origin = "frame" /\ cmd = NoCmd /\ cframe \in CmdFrames /\ cstage = "frame"

IntoFrame ==
    /\ cstage = "cmd"
    /\ cframe' = into_frame(cmd)
    /\ cstage' = "frame"
    /\ UNCHANGED <<origin, cmd, cres, outsideCmd>>

FromFrame ==
    /\ cstage = "frame"
    /\ cres' = from_frame(cframe)
    /\ cstage' = "parsed"
    /\ UNCHANGED <<origin, cmd, cframe, outsideCmd>>

CmdNext == IntoFrame \/ FromFrame

SpecCmd == CmdInit /\ [][CmdNext]_vars

\* The first element is a string (Text, or Binary holding UTF-8).
HasName(f) ==
    /\ f.type = "Array" /\ Len(f.elems) >= 1
    /\ f.elems[1].type \in {"Text", "Binary"} /\ IsUtf8(f.elems[1].val)

\* the name with every upper-case letter replaced by its lower-case letter
NameOf(f) == [i \in 1..Len(f.elems[1].val) |-> LowerByte(f.elems[1].val[i])]

KnownNames == {get_name, set_name, echo_name}

\* elements a command needs, counting the name
Arity(name) == IF name = set_name THEN 3 ELSE 2

ArgsReadable(f) ==
    \A i \in 2..Min({Len(f.elems), Arity(NameOf(f))}) :
        /\ f.elems[i].type \in {"Text", "Binary"}
        /\ i = 2 => IsUtf8(f.elems[i].val)

C9_CommandRoundTrip ==
    (origin = "cmd" /\ cstage = "parsed") => (cres.ok /\ cres.cmd = cmd)

\* C9 witness: a Set command with a non-empty key and value went through.
C9_Witness ==
    /\ origin = "cmd" /\ cstage = "parsed" /\ cmd.variant = "Set"
    /\ cmd.key # <<>> /\ cmd.value # <<>> /\ cres.ok

\* C10: from_frame fails with ArgNotArray on every non-Array frame; on an Array
\* the first element is lowercased and matched against get/set/echo, so names
\* differing only in letter case select the same command, and every other name
\* fails with UnknownCommand whatever the number of remaining elements.
C10_NameDispatch ==
    cstage = "parsed" =>
        /\ cframe.type # "Array" => cres = CErr("ArgNotArray")
        /\ HasName(cframe) =>
              /\ NameOf(cframe) \notin KnownNames => cres = CErr("UnknownCommand")
              /\ NameOf(cframe) \in KnownNames =>
                    /\ cres.err \notin {"UnknownCommand", "ArgNotArray"}
                    /\ cres.ok => cres.cmd.variant =
                          (CASE NameOf(cframe) = get_name  -> "Get"
                             [] NameOf(cframe) = set_name  -> "Set"
                             [] NameOf(cframe) = echo_name -> "Echo")
                    /\ cres = from_frame(Array(<<Text(NameOf(cframe))>> \o Tail(cframe.elems)))

\* C10 witness: a name spelt in upper case selected the Get command.
C10_Witness ==
    /\ cstage = "parsed" /\ HasName(cframe)
    /\ cframe.elems[1].val = <<"G", "E", "T">>
    /\ cres.ok /\ cres.cmd.variant = "Get"

-----------------------------------------------------------------------------
(* Server side: Command::apply, Echo::apply *)

Echo_apply(c) == write_frame(Text(c.echo))

\* match self { Echo(echo) => echo.apply(dst).await, _ => todo!() }
Command_apply(c) ==
    IF c.variant = "Echo" THEN Echo_apply(c) ELSE WPanic("todo", <<>>)

-----------------------------------------------------------------------------
(* Client (uranus-c).  A call is a record of its name and arguments; what it *)
(* returns is kind "Ok" (val, and some = FALSE for Ok(None)), "Err" (err,    *)
(* and val for the text of an Error frame) or "Panic".                       *)

EchoCall(s)   == [op |-> "echo", key |-> s,    value |-> <<>>]
GetCall(k)    == [op |-> "get",  key |-> k,    value |-> <<>>]
SetCall(k, v) == [op |-> "set",  key |-> k,    value |-> v]
NoCall        == [op |-> "",     key |-> <<>>, value |-> <<>>]

CallOk(val, some) == [kind |-> "Ok",    err |-> "", val |-> val,  some |-> some]
CallErr(e, val)   == [kind |-> "Err",   err |-> e,  val |-> val,  some |-> FALSE]
CallPanic(e)      == [kind |-> "Panic", err |-> e,  val |-> <<>>, some |-> FALSE]

ok_text == <<"O", "K">>

\* Put::new(key, value).into_frame(): Put is not part of command.rs; it is taken
\* to render what Set renders.
Put_into_frame(key, value) == Array(<<Text(set_name), Text(key), Binary(value)>>)

\* the frame a call writes
request_frame(call) ==
    CASE call.op = "echo" -> Echo_into_frame(EchoCmd(call.key))
      [] call.op = "get"  -> Get_into_frame(GetCmd(call.key))
      [] call.op = "set"  -> Put_into_frame(call.key, call.value)

\* faulty variant of read_response: an Error frame is handed on like any frame
read_response_Plain(r) ==
    CASE r.kind = "Panic" -> [kind |-> "Panic", err |-> r.err, frame |-> Null]
      [] r.kind = "Err"   -> [kind |-> "Err", err |-> r.err, frame |-> Null]
      [] r.kind = "None"  -> [kind |-> "Err", err |-> "ConnectionReset", frame |-> Null]
      [] OTHER -> [kind |-> "Frame", err |-> "", frame |-> r.frame]

\* Client::read_response on the outcome r of read_frame; kind "Frame" is Ok(frame)
read_response(r) ==
    CASE r.kind = "Panic" -> [kind |-> "Panic", err |-> r.err, frame |-> Null]
      [] r.kind = "Err"   -> [kind |-> "Err", err |-> r.err, frame |-> Null]
      [] r.kind = "None"  -> [kind |-> "Err", err |-> "ConnectionReset", frame |-> Null]
      [] r.kind = "Some" /\ r.frame.type = "Error" ->
            [kind |-> "Err", err |-> "PeerError", frame |-> r.frame]
      [] OTHER -> [kind |-> "Frame", err |-> "", frame |-> r.frame]

\* self.read_response().await? : what the call returns when no frame came
ResponseFailure(resp) ==
    IF resp.kind = "Panic" THEN CallPanic(resp.err) ELSE CallErr(resp.err, resp.frame.val)

Client_echo(r) ==
    LET resp == read_response(r)
    IN  IF resp.kind # "Frame" THEN ResponseFailure(resp)
        ELSE IF resp.frame.type = "Text" THEN CallOk(resp.frame.val, TRUE)
        ELSE CallErr("BadResponse", <<>>)

Client_get(r) ==
    LET resp == read_response(r)
    IN  IF resp.kind # "Frame" THEN ResponseFailure(resp)
        ELSE IF resp.frame.type \in {"Text", "Binary"} THEN CallOk(resp.frame.val, TRUE)
        ELSE IF resp.frame.type = "Null" THEN CallOk(<<>>, FALSE)
        ELSE CallErr("UnexpectedFrame", <<>>)

Client_set(r) ==
    LET resp == read_response(r)
    IN  IF resp.kind # "Frame" THEN ResponseFailure(resp)
        ELSE IF resp.frame.type = "Text" /\ resp.frame.val = ok_text THEN CallOk(<<>>, TRUE)
        ELSE CallErr("UnexpectedFrame", <<>>)

\* what the call in progress returns on the outcome r of its read_frame
call_result(call, r) ==
    CASE call.op = "echo" -> Client_echo(r)
      [] call.op = "get"  -> Client_get(r)
      [] call.op = "set"  -> Client_set(r)

-----------------------------------------------------------------------------
(* Spec: clients, the listener and one handler per accepted connection.      *)
(* The two ends of a connection exchange bytes over c2s and s2c; read_buf    *)
(* returns any non-empty prefix of what is in flight.  An end that drops its *)
(* socket makes the other end read 0 once the bytes in flight are read; a    *)
(* connection on which bytes met a closed end is reset, and its reads and    *)
(* writes may then fail with an I/O error.  A client of this model is        *)
(* dropped only between calls, and every call waits for its response or for  *)
(* the handler to go away, so the handler never writes to a client that has  *)
(* gone.                                                                     *)

Conns == {"c1", "c2"}

MaxOps == 2    \* calls the clients make, all connections together

EchoArgs == { <<"a">>, <<"a", CR, LF, "b">> }

ClientCalls ==
    {EchoCall(e) : e \in EchoArgs} \cup {SetCall(<<"k">>, <<"v">>), GetCall(<<"k">>)}

Init ==
    /\ CodecIdle
    /\ ConnIdle
    /\ CmdIdle
    /\ WriteIdle
    /\ ListIdle
    /\ cpc = [k \in Conns |-> "init"]
    /\ cop = [k \in Conns |-> NoCall]
    /\ cbuf = [k \in Conns |-> <<>>]
    /\ results = [k \in Conns |-> <<>>]
    /\ requests = [k \in Conns |-> <<>>]
    /\ c2s = [k \in Conns |-> <<>>]
    /\ s2c = [k \in Conns |-> <<>>]
    /\ hpc = [k \in Conns |-> "none"]
    /\ sbuf = [k \in Conns |-> <<>>]
    /\ received = [k \in Conns |-> <<>>]
    /\ replies = [k \in Conns |-> <<>>]
    /\ reset = [k \in Conns |-> FALSE]

RECURSIVE SumLen(_, _)
SumLen(f, S) ==
    IF S = {} THEN 0
    ELSE LET k == CHOOSE x \in S : TRUE IN Len(f[k]) + SumLen(f, S \ {k})

\* calls made so far: those that returned and those in progress
CallsMade == SumLen(results, Conns) + Cardinality({k \in Conns : cop[k] # NoCall})

\* the end has dropped its socket
ServerGone(k) == hpc[k] \in {"done", "err", "panic"}
ClientGone(k) == cpc[k] \in {"closed", "panic"}

\* Client::connect
Connect(k) ==
    /\ cpc[k] = "init"
    /\ cpc' = [cpc EXCEPT ![k] = "idle"]
    /\ UNCHANGED <<cop, cbuf, results, requests, c2s, s2c, hpc, sbuf, received, replies,
                   reset, outsideE2E>>

\* the client is dropped
ClientClose(k) ==
    /\ cpc[k] = "idle"
    /\ cpc' = [cpc EXCEPT ![k] = "closed"]
    /\ UNCHANGED <<cop, cbuf, results, requests, c2s, s2c, hpc, sbuf, received, replies,
                   reset, outsideE2E>>

\* Client::echo / get / set up to the await in read_response: the request frame
\* is written and flushed.  Written to a connection already reset, the write may
\* fail, and the call returns the I/O error.
ClientCall(k) ==
    /\ cpc[k] = "idle" /\ CallsMade < MaxOps
    /\ \E call \in ClientCalls : \E w \in {write_frame(request_frame(call))} :
          \E io \in IF reset[k] THEN {"ok", "err"} ELSE {"ok"} :
             /\ w.kind = "Ok"
             /\ requests' = [requests EXCEPT ![k] = Append(@, request_frame(call))]
             /\ IF io = "err"
                THEN /\ results' = [results EXCEPT ![k] =
                                       Append(@, [call |-> call, ret |-> CallErr("io", <<>>),
                                                  resp |-> NotRun])]
                     /\ UNCHANGED <<cpc, cop, c2s, reset>>
                ELSE /\ cpc' = [cpc EXCEPT ![k] = "call"]
                     /\ cop' = [cop EXCEPT ![k] = call]
                     /\ c2s' = [c2s EXCEPT ![k] = IF ServerGone(k) THEN @ ELSE @ \o w.bytes]
                     /\ reset' = [reset EXCEPT ![k] = @ \/ ServerGone(k)]
                     /\ UNCHANGED results
    /\ UNCHANGED <<cbuf, s2c, hpc, sbuf, received, replies, outsideE2E>>

\* read_frame of the call in progress ended with r: the call returns what its
\* match makes of it
ClientReturn(k, r) ==
    \E ret \in {call_result(cop[k], r)} :
        /\ results' = [results EXCEPT ![k] =
                          Append(@, [call |-> cop[k], ret |-> ret, resp |-> r])]
        /\ cop' = [cop EXCEPT ![k] = NoCall]
        /\ cpc' = [cpc EXCEPT ![k] = IF ret.kind = "Panic" THEN "panic" ELSE "idle"]

\* one turn of the client's read_frame loop up to the await on read_buf
ClientTurn(k) ==
    /\ cpc[k] = "call"
    /\ \E p \in {parse_frame(cbuf[k])} :
          /\ cbuf' = [cbuf EXCEPT ![k] = p.buffer]
          /\ IF p.res.kind = "None"
             THEN cpc' = [cpc EXCEPT ![k] = "read"] /\ UNCHANGED <<cop, results>>
             ELSE ClientReturn(k, Ret(p.res))
    /\ UNCHANGED <<requests, c2s, s2c, hpc, sbuf, received, replies, reset, outsideE2E>>

ClientRead(k) ==
    /\ cpc[k] = "read"
    /\ \E n \in 1..Len(s2c[k]) :
          /\ cbuf' = [cbuf EXCEPT ![k] = @ \o SubSeq(s2c[k], 1, n)]
          /\ s2c' = [s2c EXCEPT ![k] = SubSeq(@, n + 1, Len(@))]
    /\ cpc' = [cpc EXCEPT ![k] = "call"]
    /\ UNCHANGED <<cop, results, requests, c2s, hpc, sbuf, received, replies, reset,
                   outsideE2E>>

\* read_buf returns 0: the handler is gone and nothing is in flight
ClientReadEof(k) ==
    /\ cpc[k] = "read" /\ s2c[k] = <<>> /\ ServerGone(k)
    /\ ClientReturn(k, read_eof(cbuf[k]))
    /\ UNCHANGED <<cbuf, requests, c2s, s2c, hpc, sbuf, received, replies, reset,
                   outsideE2E>>

\* read_buf fails on a reset connection
ClientReadReset(k) ==
    /\ cpc[k] = "read" /\ reset[k] /\ ServerGone(k)
    /\ ClientReturn(k, RErr("io", 0))
    /\ UNCHANGED <<cbuf, requests, c2s, s2c, hpc, sbuf, received, replies, reset,
                   outsideE2E>>

\* Listener::run: accept, build the Handler, spawn its task
Accept(k) ==
    /\ hpc[k] = "none" /\ cpc[k] # "init"
    /\ hpc' = [hpc EXCEPT ![k] = "call"]
    /\ UNCHANGED <<cpc, cop, cbuf, results, requests, c2s, s2c, sbuf, received, replies,
                   reset, outsideE2E>>

\* faulty variant of HandlerEnds: the failure takes every handler down
HandlerEnds_All(k, how) ==
    /\ hpc' = [j \in Conns |-> how]
    /\ reset' = [reset EXCEPT ![k] = @ \/ c2s[k] # <<>>]

\* the handler's task ends in state how; its socket is dropped, and bytes of the
\* client still unread reset the connection
HandlerEnds(k, how) ==
    /\ hpc' = [hpc EXCEPT ![k] = how]
    /\ reset' = [reset EXCEPT ![k] = @ \/ c2s[k] # <<>>]

\* Handler::run, one turn of the loop up to the next await: read_frame's
\* parse_frame, then Command::from_frame and apply on the frame it returns
HandlerTurn(k) ==
    /\ hpc[k] = "call"
    /\ \E p \in {parse_frame(sbuf[k])} :
        /\ sbuf' = [sbuf EXCEPT ![k] = p.buffer]
        /\ IF p.res.kind = "None"
           THEN /\ hpc' = [hpc EXCEPT ![k] = "read"]
                /\ UNCHANGED <<received, replies, s2c, reset>>
           ELSE IF p.res.kind = "Err"
           THEN HandlerEnds(k, "err") /\ UNCHANGED <<received, replies, s2c>>
           ELSE IF p.res.kind = "Panic"
           THEN HandlerEnds(k, "panic") /\ UNCHANGED <<received, replies, s2c>>
           ELSE \E c \in {from_frame(p.res.frame)} :
                /\ received' = [received EXCEPT ![k] = Append(@, p.res.frame)]
                /\ IF ~c.ok
                   THEN HandlerEnds(k, "err") /\ UNCHANGED <<replies, s2c>>
                   ELSE \E w \in {Command_apply(c.cmd)} :
                        IF w.kind = "Panic"
                        THEN HandlerEnds(k, "panic") /\ UNCHANGED <<replies, s2c>>
                        ELSE /\ replies' = [replies EXCEPT ![k] = Append(@, Text(c.cmd.echo))]
                             /\ s2c' = [s2c EXCEPT ![k] = @ \o w.bytes]
                             /\ UNCHANGED <<hpc, reset>>
    /\ UNCHANGED <<cpc, cop, cbuf, results, requests, c2s, outsideE2E>>

HandlerRead(k) ==
    /\ hpc[k] = "read"
    /\ \E n \in 1..Len(c2s[k]) :
          /\ sbuf' = [sbuf EXCEPT ![k] = @ \o SubSeq(c2s[k], 1, n)]
          /\ c2s' = [c2s EXCEPT ![k] = SubSeq(@, n + 1, Len(@))]
    /\ hpc' = [hpc EXCEPT ![k] = "call"]
    /\ UNCHANGED <<cpc, cop, cbuf, results, requests, s2c, received, replies, reset,
                   outsideE2E>>

\* read_buf returns 0: Ok(None) ends the handler cleanly, else the reset error
HandlerReadEof(k) ==
    /\ hpc[k] = "read" /\ c2s[k] = <<>> /\ ClientGone(k)
    /\ HandlerEnds(k, IF read_eof(sbuf[k]).kind = "None" THEN "done" ELSE "err")
    /\ UNCHANGED <<cpc, cop, cbuf, results, requests, c2s, s2c, sbuf, received, replies,
                   outsideE2E>>

Next ==
    \E k \in Conns :
        \/ Connect(k) \/ ClientCall(k) \/ ClientTurn(k) \/ ClientRead(k)
        \/ ClientReadEof(k) \/ ClientReadReset(k) \/ ClientClose(k)
        \/ Accept(k) \/ HandlerTurn(k) \/ HandlerRead(k)
        \/ HandlerReadEof(k)

Spec == Init /\ [][Next]_vars

\* every earlier call on connection k returned Ok: the server has served them
ServedSoFar(k, i) == \A j \in 1..(i - 1) : results[k][j].ret.kind = "Ok"

\* the handler's read_frame returned a frame for the i-th request of connection k
Delivered(k, i) == Len(received[k]) >= i

\* C6: for a client connected to a running server, echo(s) sends
\* Array[Text("echo"), Text(s)], the server answers with the single frame Text(s),
\* and the client's echo call returns s.  (Stated for the requests the handler's
\* read_frame delivered to it.)
C6_EchoEndToEnd ==
    \A k \in Conns : \A i \in 1..Len(results[k]) :
        (results[k][i].call.op = "echo" /\ ServedSoFar(k, i) /\ Delivered(k, i)) =>
            /\ requests[k][i] = Array(<<Text(echo_name), Text(results[k][i].call.key)>>)
            /\ Len(replies[k]) >= i /\ replies[k][i] = Text(results[k][i].call.key)
            /\ results[k][i].ret = CallOk(results[k][i].call.key, TRUE)

\* C7: for a client connected to a running server, set(key, value) completes
\* successfully (the server answers the Set request with a response frame the
\* client accepts), and a following get(key) on the same connection completes
\* without error.  (Stated for the requests the handler's read_frame delivered
\* to it.)
C7_SetThenGet ==
    \A k \in Conns : \A i \in 1..Len(results[k]) :
        /\ (results[k][i].call.op = "set" /\ ServedSoFar(k, i) /\ Delivered(k, i)) =>
              /\ Len(replies[k]) >= i
              /\ results[k][i].ret.kind = "Ok"
        /\ (results[k][i].call.op = "get" /\ i > 1 /\ results[k][i - 1].call.op = "set"
              /\ ServedSoFar(k, i) /\ Delivered(k, i)) => results[k][i].ret.kind = "Ok"

\* The handler of connection k ended on something of its own connection: its
\* receive buffer does not check or parse, its client went away mid-frame, or the
\* last frame it received is no command or a command that apply does not finish.
OwnCause(k) ==
    \/ parse_frame(sbuf[k]).res.kind \in {"Err", "Panic"}
    \/ sbuf[k] # <<>> /\ ClientGone(k) /\ c2s[k] = <<>>
    \/ /\ Len(received[k]) > Len(replies[k])
       /\ LET c == from_frame(received[k][Len(received[k])])
          IN  ~c.ok \/ Command_apply(c.cmd).kind # "Ok"

-----------------------------------------------------------------------------
(* SpecServer: one Handler against a peer that pipelines Echo requests: it   *)
(* writes request after request without waiting for the responses, and may   *)
(* then drop the connection.  The handler's side is that of Spec; the bytes  *)
(* reach it in whatever pieces read_buf returns.                             *)

MaxRequests == 2   \* requests the peer writes

ServerConns == {"c1"}

PipeArgs == { <<"a">>, <<"b">> }

\* the peer writes an Echo request
PeerRequest(k) ==
    /\ cpc[k] = "idle" /\ ~ServerGone(k) /\ Len(requests[k]) < MaxRequests
    /\ \E e \in PipeArgs : \E w \in {write_frame(Echo_into_frame(EchoCmd(e)))} :
          /\ w.kind = "Ok"
          /\ requests' = [requests EXCEPT ![k] = Append(@, Echo_into_frame(EchoCmd(e)))]
          /\ c2s' = [c2s EXCEPT ![k] = @ \o w.bytes]
    /\ UNCHANGED <<cpc, cop, cbuf, results, s2c, hpc, sbuf, received, replies, reset,
                   outsideE2E>>

ServerNext ==
    \E k \in ServerConns :
        \/ Connect(k) \/ Accept(k) \/ PeerRequest(k) \/ ClientClose(k)
        \/ HandlerTurn(k) \/ HandlerRead(k) \/ HandlerReadEof(k)

SpecServer == Init /\ [][ServerNext]_vars

\* the bytes of the frames q, written one after the other
RECURSIVE Written(_)
Written(q) == IF q = <<>> THEN <<>> ELSE write_frame(q[1]).bytes \o Written(Tail(q))

\* the argument of an Echo request frame
EchoOf(f) == f.elems[2].val

\* what holds of the order of requests and responses on connection k: the
\* handler has answered every request it took but the one that ended it, the
\* i-th response answers the i-th request, and the responses are on the wire
\* whole and in that order
InRequestOrder(k) ==
    /\ Len(replies[k]) = Len(received[k]) - (IF hpc[k] \in {"err", "panic"}
                                               /\ Len(received[k]) > Len(replies[k])
                                             THEN 1 ELSE 0)
    /\ Len(received[k]) <= Len(requests[k])
    /\ \A i \in 1..Len(received[k]) : received[k][i] = requests[k][i]
    /\ \A i \in 1..Len(replies[k]) : replies[k][i] = Text(EchoOf(requests[k][i]))
    /\ s2c[k] = Written(replies[k])

\* the handler has taken everything the peer wrote
Consumed(k) == c2s[k] = <<>> /\ sbuf[k] = <<>> /\ hpc[k] # "none"

\* C27: on one connection the handler answers request i before it takes
\* request i+1, so the responses to pipelined Echo requests are written in
\* request order, and there is exactly one for each request: the handler does
\* not fail on them, and once it has taken all the peer wrote, it has answered
\* all.
C27_RequestResponseOrder ==
    \A k \in ServerConns :
        /\ InRequestOrder(k)
        /\ hpc[k] \notin {"err", "panic"}
        /\ Consumed(k) => Len(replies[k]) = Len(requests[k])

\* C27 without the failures of the handler: the order of what it does answer
C27_OrderOfAnswers ==
    \A k \in ServerConns :
        /\ InRequestOrder(k)
        /\ (Consumed(k) /\ hpc[k] \notin {"err", "panic"}) =>
              Len(replies[k]) = Len(requests[k])

-----------------------------------------------------------------------------
(* SpecClient: one Client against a peer that answers as it likes: it writes *)
(* any frames, at any time, and may drop the connection.  The client's side  *)
(* is that of Spec.                                                          *)

MaxReplies     == 2    \* frames the peer writes
MaxClientCalls == 1    \* calls the client makes

ClientConns == {"c1"}

RespFrames ==
    { Text(<<"a">>), Text(ok_text), Error(<<"e">>), Binary(<<"b">>),
      Array(<<Text(<<"a">>)>>), Array(<<>>) }

\* the peer writes a frame
PeerReply(k) ==
    /\ hpc[k] = "call" /\ Len(replies[k]) < MaxReplies
    /\ \E f \in RespFrames : \E w \in {write_frame(f)} :
          /\ w.kind = "Ok"
          /\ replies' = [replies EXCEPT ![k] = Append(@, f)]
          /\ s2c' = [s2c EXCEPT ![k] = @ \o w.bytes]
    /\ UNCHANGED <<cpc, cop, cbuf, results, requests, c2s, hpc, sbuf, received, reset,
                   outsideE2E>>

\* the peer drops the connection without reading what the client sent
PeerDrop(k) ==
    /\ hpc[k] = "call"
    /\ HandlerEnds(k, "done")
    /\ UNCHANGED <<cpc, cop, cbuf, results, requests, c2s, s2c, sbuf, received, replies,
                   outsideE2E>>

\* the client makes its next call
ClientCallNext(k) == CallsMade < MaxClientCalls /\ ClientCall(k)

ClientNext ==
    \E k \in ClientConns :
        \/ Connect(k) \/ ClientTurn(k) \/ ClientRead(k)
        \/ ClientCallNext(k)
        \/ ClientReadEof(k) \/ ClientReadReset(k)
        \/ Accept(k) \/ PeerReply(k) \/ PeerDrop(k)

SpecClient == Init /\ [][ClientNext]_vars

OpCall(op) ==
    CASE op = "echo" -> EchoCall(<<"a">>)
      [] op = "get"  -> GetCall(<<"k">>)
      [] op = "set"  -> SetCall(<<"k">>, <<"v">>)

\* the mapping of C15 as stated, the same for every call
MappedAsStated(f) ==
    CASE f.type = "Text"   -> CallOk(f.val, TRUE)
      [] f.type = "Binary" -> CallOk(f.val, TRUE)
      [] f.type = "Null"   -> CallOk(<<>>, FALSE)
      [] f.type = "Error"  -> CallErr("PeerError", f.val)
      [] OTHER             -> CallErr("UnexpectedFrame", <<>>)

\* the mapping call by call
MappedPerCall(op, f) ==
    IF f.type = "Error" THEN CallErr("PeerError", f.val)
    ELSE CASE op = "get" ->
                 IF f.type \in {"Text", "Binary"} THEN CallOk(f.val, TRUE)
                 ELSE IF f.type = "Null" THEN CallOk(<<>>, FALSE)
                 ELSE CallErr("UnexpectedFrame", <<>>)
           [] op = "echo" ->
                 IF f.type = "Text" THEN CallOk(f.val, TRUE)
                 ELSE CallErr("BadResponse", <<>>)
           [] op = "set" ->
                 IF f = Text(ok_text) THEN CallOk(<<>>, TRUE)
                 ELSE CallErr("UnexpectedFrame", <<>>)

\* every call so far read a response frame
AllAnswered(k) == \A i \in 1..Len(results[k]) : results[k][i].resp.kind = "Some"

\* each call writes one request frame and then reads exactly one response frame:
\* the i-th call read the i-th frame the peer wrote, and between calls what is
\* buffered or in flight is the encoding of the frames not yet read
OneRequestOneResponse(k) ==
    /\ Len(requests[k]) = Len(results[k]) + (IF cop[k] = NoCall THEN 0 ELSE 1)
    /\ AllAnswered(k) =>
          /\ \A i \in 1..Len(results[k]) :
                Len(replies[k]) >= i /\ results[k][i].resp.frame = replies[k][i]
          /\ cpc[k] = "idle" => cbuf[k] \o s2c[k] = EncodeFrom(replies[k], Len(results[k]) + 1)

\* C15 as stated: each client call writes one request frame and then reads exactly
\* one response frame; a Text response maps to a string, Binary to bytes, Null to
\* absence, every other frame to UnexpectedFrame, and an Error frame is returned
\* as a failure carrying the error text, distinct from ConnectionReset.
C15_ResponseMapping_Original ==
    \A k \in ClientConns :
        /\ OneRequestOneResponse(k)
        /\ \A i \in 1..Len(results[k]) :
              /\ results[k][i].resp.kind = "Some" =>
                    results[k][i].ret = MappedAsStated(results[k][i].resp.frame)
              /\ results[k][i].resp.kind = "None" =>
                    results[k][i].ret = CallErr("ConnectionReset", <<>>)

\* C15 amended: each client call writes one request frame and then reads exactly
\* one response frame; an Error frame is returned as a failure carrying the error
\* text, distinct from ConnectionReset (the stream ended) and from a transport
\* error; of the other frames get maps Text and Binary to bytes, Null to absence
\* and the rest to UnexpectedFrame, echo maps Text to a string and the rest to
\* BadResponse, set maps Text("OK") to success and the rest to UnexpectedFrame.
C15_ResponseMapping ==
    /\ \A k \in ClientConns :
          /\ OneRequestOneResponse(k)
          /\ \A i \in 1..Len(results[k]) :
                /\ results[k][i].resp.kind = "Some" =>
                      results[k][i].ret =
                          MappedPerCall(results[k][i].call.op, results[k][i].resp.frame)
                /\ results[k][i].resp.kind = "None" =>
                      results[k][i].ret = CallErr("ConnectionReset", <<>>)
                /\ results[k][i].resp.kind = "Err" =>
                      results[k][i].ret = CallErr(results[k][i].resp.err, <<>>)
    /\ \A op \in {"echo", "get", "set"} : \A f \in RespFrames \cup {Null} :
          call_result(OpCall(op), RSome(f, 0)) = MappedPerCall(op, f)

\* C15 witness: the peer wrote two frames, a get call read the first, a Binary
\* frame, and returned its bytes, and the encoding of the second is still unread.
C15_Witness ==
    \E k \in ClientConns :
        /\ Len(replies[k]) = 2 /\ Len(results[k]) = 1 /\ cpc[k] = "idle"
        /\ results[k][1].call.op = "get"
        /\ results[k][1].resp = RSome(replies[k][1], 0)
        /\ replies[k][1].type = "Binary"
        /\ results[k][1].ret = CallOk(replies[k][1].val, TRUE)
        /\ cbuf[k] \o s2c[k] = write_frame(replies[k][2]).bytes

-----------------------------------------------------------------------------
(* SpecWrite: one Connection whose caller calls write_frame again and again, *)
(* while the peer reads from the stream and may close it.  write_u8 and      *)
(* write_all hand bytes to the BufWriter; only flush() moves them to the     *)
(* socket.  (The BufWriter also writes through when its buffer is full; the  *)
(* frames of the model are far smaller than its capacity.)                   *)

MaxWrites == 3    \* write_frame calls of the caller

WriteFrames ==
    { Text(<<"a">>), Error(<<"e">>), Binary(<<"b">>), Null,
      Array(<<Text(<<"a">>), Binary(<<"b">>)>>),
      Array(<<Text(<<"a">>), Array(<<>>)>>),
      Array(<<Array(<<>>)>>) }

\* faulty variant of stream_flush: the bytes stay in the BufWriter
stream_flush_Skipped(buf, socket) == [buf |-> buf, socket |-> socket]

\* self.stream.flush(): everything the BufWriter holds goes to the socket
stream_flush(buf, socket) == [buf |-> <<>>, socket |-> socket \o buf]

WLog(f, kind, err, bytes) == [frame |-> f, kind |-> kind, err |-> err, bytes |-> bytes]

WriteInit ==
    /\ CodecIdle
    /\ ConnIdle
    /\ CmdIdle
    /\ E2EIdle
    /\ ListIdle
    /\ wbuf = <<>> /\ sock = <<>> /\ got = <<>> /\ wlog = <<>> /\ wpc = "idle"
    /\ wgone = FALSE

\* write_frame(f) from call to return.  Once the peer has closed, flush() may
\* still succeed (the kernel takes the bytes) or fail with an io::Error.
WriteCall ==
    /\ wpc = "idle" /\ Len(wlog) < MaxWrites
    /\ \E f \in WriteFrames : \E w \in {write_frame(f)} :
       \E io_ok \in (IF wgone THEN {TRUE, FALSE} ELSE {TRUE}) :
       \E fl \in {stream_flush(wbuf \o w.bytes, sock)} :
          IF w.kind = "Ok" /\ io_ok
          THEN /\ wbuf' = fl.buf
               /\ sock' = fl.socket
               /\ wlog' = Append(wlog, WLog(f, "Ok", "", w.bytes))
               /\ wpc' = wpc
          ELSE /\ wbuf' = wbuf \o w.bytes
               /\ sock' = sock
               /\ wlog' = Append(wlog, WLog(f, IF w.kind = "Ok" THEN "Err" ELSE w.kind,
                                            IF w.kind = "Ok" THEN "io" ELSE w.err, w.bytes))
               /\ wpc' = IF w.kind = "Panic" THEN "dead" ELSE wpc
    /\ UNCHANGED <<got, wgone, outsideWrite>>

\* the peer reads some of the bytes that have reached it
PeerRecv ==
    /\ ~wgone
    /\ \E n \in 1..Len(sock) :
          /\ got' = got \o SubSeq(sock, 1, n)
          /\ sock' = SubSeq(sock, n + 1, Len(sock))
    /\ UNCHANGED <<wbuf, wlog, wpc, wgone, outsideWrite>>

PeerShut ==
    /\ ~wgone
    /\ wgone' = TRUE
    /\ UNCHANGED <<wbuf, sock, got, wlog, wpc, outsideWrite>>

WriteNext == WriteCall \/ PeerRecv \/ PeerShut

SpecWrite == WriteInit /\ [][WriteNext]_vars

\* the last call that returned Ok, 0 when there is none
LastOk == IF \E i \in 1..Len(wlog) : wlog[i].kind = "Ok"
          THEN CHOOSE i \in 1..Len(wlog) :
                   wlog[i].kind = "Ok" /\ \A j \in (i + 1)..Len(wlog) : wlog[j].kind # "Ok"
          ELSE 0

\* the bytes the calls 1..n handed to the stream, in call order
RECURSIVE Handed(_)
Handed(n) == IF n = 0 THEN <<>> ELSE Handed(n - 1) \o wlog[n].bytes

\* C13: when write_frame returns Ok every byte of that frame has been flushed to
\* the socket (nothing is left in the BufWriter), and the bytes of successive
\* write_frame calls reach the peer in call order, never interleaved: the stream
\* is the bytes of the calls up to the last successful one, call after call, and
\* a successful call's bytes are the whole encoding of its frame.
C13_WriteOrdering ==
    /\ (wlog # <<>> /\ wlog[Len(wlog)].kind = "Ok") => wbuf = <<>>
    /\ got \o sock = Handed(LastOk)
    /\ \A i \in 1..Len(wlog) :
          wlog[i].kind = "Ok" =>
              /\ write_frame(wlog[i].frame).kind = "Ok"
              /\ wlog[i].bytes = write_frame(wlog[i].frame).bytes

\* C13 witness: two different frames were written successfully and the peer has
\* read both encodings, the first before the second.
C13_Witness ==
    /\ Len(wlog) >= 2 /\ wlog[1].kind = "Ok" /\ wlog[2].kind = "Ok"
    /\ wlog[1].frame # wlog[2].frame
    /\ got = wlog[1].bytes \o wlog[2].bytes

\* the encodings of the frames the calls 1..n wrote successfully, in call order
RECURSIVE Encoded(_)
Encoded(n) ==
    IF n = 0 THEN <<>>
    ELSE IF wlog[n].kind = "Ok" THEN Encoded(n - 1) \o write_frame(wlog[n].frame).bytes
    ELSE Encoded(n - 1)

\* C30: a failed write leaves the stream clean: when write_frame returns an
\* error no byte of the failed frame ever reaches the peer, so what the peer
\* receives from the next successful write_frame is exactly the encoding of
\* that frame: the stream holds the encodings of the successful calls only.
C30_FailedWriteLeavesStreamClean ==
    got \o sock = Encoded(Len(wlog))

\* what holds instead: the bytes a failed call handed to the BufWriter stay
\* there, reach the peer with the flush of the next successful call, ahead of
\* that call's frame, and never before it
C30_FailedBytesAreKept ==
    /\ got \o sock \o wbuf = Handed(Len(wlog))
    /\ \A i \in 1..Len(wlog) :
          (wlog[i].kind = "Err" /\ wlog[i].err = "Recursive") =>
              /\ wlog[i].bytes # <<>>
              /\ (i = LastOk + 1) => Len(wbuf) >= Len(wlog[i].bytes)

-----------------------------------------------------------------------------
(* The arena linked list (uranus-kv, linked_list.rs).  The list is a record  *)
(* of the two sentinel nodes, the vector data_nodes and the vector free; a   *)
(* node is a record of prev, next and data.  Index i >= OFFSET addresses     *)
(* data_nodes[i - OFFSET], which is element i - OFFSET + 1 of the sequence.  *)
(* An operation yields the list it leaves behind, what it returns (some, val)*)
(* and ok, FALSE when it panicked (an assert!, an index out of bounds).      *)

NULL   == 65535    \* usize::MAX, the word being taken 16 bits wide
HEAD   == 0
TAIL   == 1
OFFSET == 2

Node(prev, next, data) == [prev |-> prev, next |-> next, data |-> data]

\* LinkedList::with_capacity / Nodes::with_capacity
with_capacity ==
    [ head       |-> Node(NULL, TAIL, 0),
      tail       |-> Node(HEAD, NULL, 0),
      data_nodes |-> <<>>,
      free       |-> <<>> ]

LRet(l, val) == [l |-> l, some |-> TRUE,  val |-> val, ok |-> TRUE]
LNone(l)     == [l |-> l, some |-> FALSE, val |-> 0,   ok |-> TRUE]
LPanic(l)    == [l |-> l, some |-> FALSE, val |-> 0,   ok |-> FALSE]

\* Index / IndexMut for Nodes: the index is one the vector holds
InBounds(l, index) ==
    index \in {HEAD, TAIL} \/ (index >= OFFSET /\ index - OFFSET < Len(l.data_nodes))

Nd(l, index) ==
    IF index = HEAD THEN l.head
    ELSE IF index = TAIL THEN l.tail
    ELSE l.data_nodes[index - OFFSET + 1]

SetNd(l, index, node) ==
    IF index = HEAD THEN [l EXCEPT !.head = node]
    ELSE IF index = TAIL THEN [l EXCEPT !.tail = node]
    ELSE [l EXCEPT !.data_nodes[index - OFFSET + 1] = node]

\* Nodes::new_node
Nodes_new_node(l, data) ==
    LRet([l EXCEPT !.data_nodes = Append(@, Node(NULL, NULL, data))],
         Len(l.data_nodes) + 1 - 1 + OFFSET)

\* faulty variant of new_node: the index freed first is reused first
new_node_OldestFree(l, data) ==
    IF l.free # <<>>
    THEN LRet(SetNd([l EXCEPT !.free = Tail(l.free)], l.free[1],
                    [Nd(l, l.free[1]) EXCEPT !.data = data]),
              l.free[1])
    ELSE Nodes_new_node(l, data)

\* faulty variant of new_node: a reused slot keeps the value it held
new_node_StaleData(l, data) ==
    IF l.free # <<>>
    THEN LRet([l EXCEPT !.free = SubSeq(l.free, 1, Len(l.free) - 1)], l.free[Len(l.free)])
    ELSE LRet([l EXCEPT !.data_nodes = Append(@, Node(NULL, NULL, data))],
              Len(l.data_nodes) + OFFSET)

\* LinkedList::new_node, Nodes::new_node
new_node(l, data) ==
    IF l.free # <<>>
    THEN LET index == l.free[Len(l.free)]
             l1    == [l EXCEPT !.free = SubSeq(l.free, 1, Len(l.free) - 1)]
         IN  IF ~InBounds(l1, index) THEN LPanic(l1)
             ELSE LRet(SetNd(l1, index, [Nd(l1, index) EXCEPT !.data = data]), index)
    ELSE Nodes_new_node(l, data)

\* faulty variant of len: the free slots are counted
len_WithFree(l) == Len(l.data_nodes)

\* LinkedList::len
len(l) == Len(l.data_nodes) - Len(l.free)

valid_index(l, index) ==
    index # HEAD /\ index # TAIL /\ index - OFFSET < Len(l.data_nodes)

\* LinkedList::peek (through node)
peek(l, index) ==
    IF valid_index(l, index) THEN LRet(l, Nd(l, index).data) ELSE LNone(l)

\* faulty variant of exist_near_head: the walk inspects one element more
RECURSIVE exist_near_head_OneMore(_, _, _, _)
exist_near_head_OneMore(l, current_node, value, search_limit) ==
    IF search_limit < 0 \/ ~InBounds(l, current_node)
    THEN [found |-> FALSE, ok |-> search_limit < 0]
    ELSE LET next_node == Nd(l, current_node).next
         IN  IF next_node = TAIL THEN [found |-> FALSE, ok |-> TRUE]
             ELSE IF ~InBounds(l, next_node) THEN [found |-> FALSE, ok |-> FALSE]
             ELSE IF Nd(l, next_node).data = value THEN [found |-> TRUE, ok |-> TRUE]
             ELSE exist_near_head_OneMore(l, next_node, value, search_limit - 1)

\* LinkedList::exist_near_head, from current_node with search_limit rounds left;
\* ok is FALSE when an index out of bounds made it panic
RECURSIVE exist_near_head(_, _, _, _)
exist_near_head(l, current_node, value, search_limit) ==
    IF search_limit = 0 THEN [found |-> FALSE, ok |-> TRUE]
    ELSE IF ~InBounds(l, current_node) THEN [found |-> FALSE, ok |-> FALSE]
    ELSE LET next_node == Nd(l, current_node).next
         IN  IF next_node = TAIL THEN [found |-> FALSE, ok |-> TRUE]
             ELSE IF ~InBounds(l, next_node) THEN [found |-> FALSE, ok |-> FALSE]
             ELSE IF Nd(l, next_node).data = value THEN [found |-> TRUE, ok |-> TRUE]
             ELSE exist_near_head(l, next_node, value, search_limit - 1)

\* faulty variant of insert_after: the successor's prev link is left as it was
insert_after_NoBackLink(l, node_index, at) ==
    IF at = TAIL \/ at = node_index \/ ~InBounds(l, at) \/ ~InBounds(l, node_index)
    THEN LPanic(l)
    ELSE LET next == Nd(l, at).next
             l1   == SetNd(l, at, [Nd(l, at) EXCEPT !.next = node_index])
         IN  LNone(SetNd(l1, node_index,
                         [Nd(l1, node_index) EXCEPT !.next = next, !.prev = at]))

\* LinkedList::insert_after
insert_after(l, node_index, at) ==
    IF at = TAIL \/ at = node_index THEN LPanic(l)
    ELSE IF ~InBounds(l, at) THEN LPanic(l)
    ELSE LET next == Nd(l, at).next
             l1   == SetNd(l, at, [Nd(l, at) EXCEPT !.next = node_index])
         IN  IF ~InBounds(l1, node_index) THEN LPanic(l1)
             ELSE LET l2 == SetNd(l1, node_index,
                                  [Nd(l1, node_index) EXCEPT !.next = next, !.prev = at])
                  IN  IF ~InBounds(l2, next) THEN LPanic(l2)
                      ELSE LNone(SetNd(l2, next, [Nd(l2, next) EXCEPT !.prev = node_index]))

\* LinkedList::push_head
push_head(l, data) ==
    LET n == new_node(l, data)
        i == insert_after(n.l, n.val, HEAD)
    IN  IF ~n.ok THEN n
        ELSE IF ~i.ok THEN i
        ELSE LRet(i.l, n.val)

\* faulty variant of push_tail: the slot is chained behind the head sentinel
push_tail_AtHead(l, data) ==
    LET n == new_node(l, data)
        i == insert_after(n.l, n.val, HEAD)
    IN  IF ~n.ok THEN n
        ELSE IF ~i.ok THEN i
        ELSE LRet(i.l, n.val)

\* LinkedList::push_tail
push_tail(l, data) ==
    LET n == new_node(l, data)
        i == insert_after(n.l, n.val, n.l.tail.prev)
    IN  IF ~n.ok THEN n
        ELSE IF ~i.ok THEN i
        ELSE LRet(i.l, n.val)

\* faulty variant of lift: the first assert! is missing
lift_NoSentinelAssert(l, index) ==
    IF ~InBounds(l, index) THEN LPanic(l)
    ELSE LET node == Nd(l, index)
             prev == node.prev
             next == node.next
             data == node.data
             l1   == SetNd(l, index, [node EXCEPT !.prev = NULL, !.next = NULL])
         IN  IF prev = NULL \/ next = NULL THEN LPanic(l1)
             ELSE IF ~InBounds(l1, prev) THEN LPanic(l1)
             ELSE LET l2 == SetNd(l1, prev, [Nd(l1, prev) EXCEPT !.next = next])
                  IN  IF ~InBounds(l2, next) THEN LPanic(l2)
                      ELSE LRet(SetNd(l2, next, [Nd(l2, next) EXCEPT !.prev = prev]), data)

\* LinkedList::lift
lift(l, index) ==
    IF index = HEAD \/ index = TAIL THEN LPanic(l)
    ELSE IF ~InBounds(l, index) THEN LPanic(l)
    ELSE LET node == Nd(l, index)
             prev == node.prev
             next == node.next
             data == node.data
             l1   == SetNd(l, index, [node EXCEPT !.prev = NULL, !.next = NULL])
         IN  IF prev = NULL \/ next = NULL THEN LPanic(l1)
             ELSE IF ~InBounds(l1, prev) THEN LPanic(l1)
             ELSE LET l2 == SetNd(l1, prev, [Nd(l1, prev) EXCEPT !.next = next])
                  IN  IF ~InBounds(l2, next) THEN LPanic(l2)
                      ELSE LRet(SetNd(l2, next, [Nd(l2, next) EXCEPT !.prev = prev]), data)

\* faulty variant of remove: the index is put on the free list twice
remove_DoublePush(l, index) ==
    lift([l EXCEPT !.free = Append(Append(@, index), index)], index)

\* LinkedList::remove
remove(l, index) == lift([l EXCEPT !.free = Append(@, index)], index)

\* faulty variant of pop_tail: the slot behind the head sentinel is removed
pop_tail_FromHead(l) ==
    LET data_tail == l.head.next
    IN  IF data_tail = TAIL THEN LNone(l) ELSE remove(l, data_tail)

\* LinkedList::pop_tail
pop_tail(l) ==
    LET data_tail == l.tail.prev
    IN  IF data_tail = HEAD THEN LNone(l) ELSE remove(l, data_tail)

\* faulty variant of promote: the slot is moved to the tail end
promote_ToTail(l, index) ==
    IF l.head.next = index THEN LNone(l)
    ELSE LET t == lift(l, index)
             i == insert_after(t.l, index, t.l.tail.prev)
         IN  IF ~t.ok THEN LPanic(t.l) ELSE i

\* LinkedList::promote
promote(l, index) ==
    IF l.head.next = index THEN LNone(l)
    ELSE LET t == lift(l, index)
             i == insert_after(t.l, index, HEAD)
         IN  IF ~t.ok THEN LPanic(t.l) ELSE i

\* LinkedListIter::next called until it returns None: the indices it passes.
\* fuel bounds the walk of a chain that does not end.
RECURSIVE iter_next(_, _, _)
iter_next(l, head, fuel) ==
    IF fuel = 0 \/ ~InBounds(l, head) THEN <<>>
    ELSE LET next_index == Nd(l, head).next
         IN  IF next_index = TAIL \/ next_index = NULL THEN <<>>
             ELSE <<next_index>> \o iter_next(l, next_index, fuel - 1)

\* LinkedListIter::next_back called until it returns None: the indices it passes
RECURSIVE iter_next_back(_, _, _)
iter_next_back(l, tail, fuel) ==
    IF fuel = 0 \/ ~InBounds(l, tail) THEN <<>>
    ELSE LET prev_index == Nd(l, tail).prev
         IN  IF prev_index = HEAD \/ prev_index = NULL THEN <<>>
             ELSE <<prev_index>> \o iter_next_back(l, prev_index, fuel - 1)

\* the slots a full forward / backward iteration visits, in order
Forward(l)  == iter_next(l, HEAD, Len(l.data_nodes) + 1)
Backward(l) == iter_next_back(l, TAIL, Len(l.data_nodes) + 1)

\* the values a full forward iteration yields (peek_unchecked of each slot)
ForwardValues(l) ==
    LET visited == Forward(l)
    IN  [n \in 1..Len(visited) |-> Nd(l, visited[n]).data]

-----------------------------------------------------------------------------
(* A caller of the list: it pushes values, and promotes and removes slots by *)
(* the indices the pushes returned and that it has not removed since.        *)
(* given records, for each such index, the value pushed under it; created    *)
(* counts the slots Nodes::new_node appended; before and lop keep the list   *)
(* as it was and what the last operation was and returned.                   *)

MaxSlots == 3      \* most elements the caller keeps in the list
MaxData  == 2      \* the values pushed are 1..MaxData

Values == 1..MaxData

Live == DOMAIN given

LOp(op, arg, r) ==
    [op |-> op, arg |-> arg, some |-> r.some, val |-> r.val, ok |-> r.ok, live |-> Live]

ListInit ==
    /\ CodecIdle
    /\ ConnIdle
    /\ CmdIdle
    /\ E2EIdle
    /\ WriteIdle
    /\ UseIdle
    /\ list = with_capacity
    /\ before = with_capacity
    /\ given = <<>>
    /\ created = 0
    /\ lop = LOp("with_capacity", 0, LNone(with_capacity))

\* a push: new_node appends a slot exactly when the free list is empty
CallPush(op, data, r) ==
    /\ list' = r.l
    /\ before' = list
    /\ lop' = LOp(op, data, r)
    /\ given' = IF r.ok
                THEN [i \in Live \cup {r.val} |-> IF i = r.val THEN data ELSE given[i]]
                ELSE given
    /\ created' = created + (IF list.free = <<>> THEN 1 ELSE 0)

CallPromote(index) ==
    \E r \in {promote(list, index)} :
        /\ list' = r.l
        /\ before' = list
        /\ lop' = LOp("promote", index, r)
        /\ UNCHANGED <<given, created>>

CallRemove(index) ==
    \E r \in {remove(list, index)} :
        /\ list' = r.l
        /\ before' = list
        /\ lop' = LOp("remove", index, r)
        /\ given' = [i \in Live \ {index} |-> given[i]]
        /\ UNCHANGED created

CallPopTail ==
    \E r \in {pop_tail(list)} :
        /\ list' = r.l
        /\ before' = list
        /\ lop' = LOp("pop_tail", list.tail.prev, r)
        /\ given' = [i \in Live \ {list.tail.prev} |-> given[i]]
        /\ UNCHANGED created

Pushed(op, data, r) == CallPush(op, data, r) /\ UNCHANGED outsideList

PushHead ==
    /\ lop.ok
    /\ Cardinality(Live) < MaxSlots
    /\ \E data \in Values : \E r \in {push_head(list, data)} : Pushed("push_head", data, r)

PushTail ==
    /\ lop.ok
    /\ Cardinality(Live) < MaxSlots
    /\ \E data \in Values : \E r \in {push_tail(list, data)} : Pushed("push_tail", data, r)

Promote ==
    /\ lop.ok
    /\ \E index \in Live : CallPromote(index) /\ UNCHANGED outsideList

Remove ==
    /\ lop.ok
    /\ \E index \in Live : CallRemove(index) /\ UNCHANGED outsideList

PopTail ==
    /\ lop.ok
    /\ CallPopTail
    /\ UNCHANGED outsideList

ListNext == PushHead \/ PushTail \/ Promote \/ Remove \/ PopTail

SpecList == ListInit /\ [][ListNext]_vars

\* helpers of the properties below
Reversed(q) == [n \in 1..Len(q) |-> q[Len(q) + 1 - n]]
Members(q)  == {q[n] : n \in 1..Len(q)}
NoRepeat(q) == \A m, n \in 1..Len(q) : q[m] = q[n] => m = n
EndOf(l, q, from) == IF q = <<>> THEN from ELSE q[Len(q)]

\* C16: after any sequence of push_head, push_tail, promote, remove and
\* pop_tail on live indices, the next links lead from the head sentinel to
\* the tail sentinel through every live slot exactly once and through no free
\* slot, the prev links lead from the tail sentinel through the same slots in
\* reverse order, and head.prev and tail.next are NULL.
C16_ChainInvariant ==
    /\ Nd(list, EndOf(list, Forward(list), HEAD)).next = TAIL
    /\ Members(Forward(list)) = Live
    /\ NoRepeat(Forward(list))
    /\ Members(Forward(list)) \cap Members(list.free) = {}
    /\ Nd(list, EndOf(list, Backward(list), TAIL)).prev = HEAD
    /\ Backward(list) = Reversed(Forward(list))
    /\ list.head.prev = NULL
    /\ list.tail.next = NULL

\* a promotion has moved a slot, in a list of two with a removed slot free
C16_Witness ==
    /\ lop.op = "promote" /\ list # before
    /\ Len(Forward(list)) = 2
    /\ list.free # <<>>

IsPush == lop.op \in {"push_head", "push_tail"} /\ lop.ok

\* C17: the index a push returns is not the index of a slot live at the
\* time of the push; it is either a slot appended by this push or one taken
\* from the free list, where a removal had put it; the free list holds no
\* index twice, no live index and no index of a chained slot.
C17_IndexUniqueness ==
    /\ IsPush =>
          /\ lop.val \notin lop.live
          /\ \/ lop.val \in Members(before.free)
             \/ lop.val = Len(before.data_nodes) + OFFSET
    /\ NoRepeat(list.free)
    /\ Members(list.free) \cap Live = {}
    /\ Members(list.free) \cap Members(Forward(list)) = {}
    /\ Members(list.free) \cap Members(Backward(list)) = {}

\* a push has reissued a removed index while another removed index stays free
C17_Witness ==
    /\ IsPush
    /\ lop.val \in Members(before.free)
    /\ list.free # <<>>
    /\ lop.live # {}

\* C18: as long as index i, returned by a push, has not been removed by
\* remove(i) or taken by a pop_tail, peek(i) returns the value given to that
\* push, whatever pushes, promotes and removals of other indices came between.
C18_IndexStability ==
    \A i \in Live : peek(list, i).some /\ peek(list, i).val = given[i]

\* two live slots of different values are left after the removal of a third
C18_Witness ==
    /\ lop.op \in {"remove", "pop_tail"} /\ lop.some
    /\ created = 3
    /\ Len(list.free) = 1
    /\ \E i, j \in Live : given[i] # given[j]

\* C19: after any interleaving of push_head, push_tail, promote, remove and
\* pop_tail on live indices, len() is the number of slots ever created less
\* the number of free slots, and is the number of elements a full forward
\* iteration yields.
C19_LengthInvariant ==
    /\ len(list) = created - Len(list.free)
    /\ len(list) = Len(ForwardValues(list))

\* two elements are chained while a removed slot is free
C19_Witness ==
    /\ created = 3
    /\ Len(list.free) = 1
    /\ Len(ForwardValues(list)) = 2
    /\ lop.op \in {"push_head", "push_tail"}

Without(q, x) == SelectSeq(q, LAMBDA e : e # x)

\* C20: promote(x) on a live index x returns normally; x's value is then the
\* first element of a forward iteration; the other elements keep their
\* relative order; len() and the free list are as before; and when x was the
\* first element already, the list is as it was.
C20_Promotion ==
    lop.op = "promote" =>
        /\ lop.ok
        /\ Forward(list) = <<lop.arg>> \o Without(Forward(before), lop.arg)
        /\ ForwardValues(list)[1] = given[lop.arg]
        /\ \A n \in 1..Len(Forward(list)) :
              Nd(list, Forward(list)[n]).data = Nd(before, Forward(list)[n]).data
        /\ len(list) = len(before)
        /\ list.free = before.free
        /\ (Forward(before)[1] = lop.arg => list = before)

\* the last of three elements, of a value the first did not have, was promoted
C20_Witness ==
    /\ lop.op = "promote"
    /\ Len(Forward(before)) = 3
    /\ Forward(before)[3] = lop.arg
    /\ Nd(before, Forward(before)[1]).data # given[lop.arg]

-----------------------------------------------------------------------------
(* A caller of the list followed call by call: hist keeps every call with    *)
(* its outcome.  Besides the calls on live indices it makes remove and       *)
(* promote calls on indices that are not live: the sentinels, freed slots    *)
(* and the first index beyond the arena.  A call that panics ends the run.   *)

MaxRun == 5        \* most calls of one run

\* every index from HEAD to the first one beyond the arena
Indices == 0..(Len(list.data_nodes) + OFFSET)

RunInit ==
    /\ CodecIdle
    /\ ConnIdle
    /\ CmdIdle
    /\ E2EIdle
    /\ WriteIdle
    /\ list = with_capacity
    /\ before = with_capacity
    /\ given = <<>>
    /\ created = 0
    /\ lop = LOp("with_capacity", 0, LNone(with_capacity))
    /\ hist = <<>>
    /\ iter = <<>> /\ fwd = <<>> /\ bwd = <<>> /\ ipc = "off"

CanCall == lop.ok /\ Len(hist) < MaxRun

Logged ==
    /\ hist' = Append(hist, lop')
    /\ UNCHANGED <<iter, fwd, bwd, ipc>>
    /\ UNCHANGED outsideUse

RunPushHead ==
    /\ CanCall
    /\ Cardinality(Live) < MaxSlots
    /\ \E data \in Values : \E r \in {push_head(list, data)} :
          CallPush("push_head", data, r) /\ Logged

RunPushTail ==
    /\ CanCall
    /\ Cardinality(Live) < MaxSlots
    /\ \E data \in Values : \E r \in {push_tail(list, data)} :
          CallPush("push_tail", data, r) /\ Logged

RunPromote == CanCall /\ \E index \in Live : CallPromote(index) /\ Logged

RunRemove == CanCall /\ \E index \in Live : CallRemove(index) /\ Logged

RunPopTail == CanCall /\ CallPopTail /\ Logged

\* promote of an index that is not live
RunPromoteOther == CanCall /\ \E index \in Indices \ Live : CallPromote(index) /\ Logged

\* remove of an index that is not live
RunRemoveOther == CanCall /\ \E index \in Indices \ Live : CallRemove(index) /\ Logged

RunNext ==
    \/ RunPushHead \/ RunPushTail \/ RunPromote \/ RunRemove \/ RunPopTail
    \/ RunPromoteOther \/ RunRemoveOther

SpecRun == RunInit /\ [][RunNext]_vars

\* the number of leading push_tail calls of the run
RECURSIVE Filled(_)
Filled(h) ==
    IF h = <<>> \/ h[1].op # "push_tail" THEN 0 ELSE 1 + Filled(Tail(h))

\* the run is a fill by push_tail calls followed by pop_tail calls only
FillThenDrain ==
    \A n \in 1..Len(hist) : n > Filled(hist) => hist[n].op = "pop_tail"

\* C21: when the list was filled by push_tail calls with v1..vn and is then
\* drained, the j-th pop_tail returns v(n+1-j), and the pop_tail after the
\* n-th returns none.
C21_DrainOrder ==
    FillThenDrain =>
        \A j \in 1..(Len(hist) - Filled(hist)) :
            /\ hist[Filled(hist) + j].ok
            /\ IF j <= Filled(hist)
               THEN /\ hist[Filled(hist) + j].some
                    /\ hist[Filled(hist) + j].val = hist[Filled(hist) + 1 - j].arg
               ELSE ~hist[Filled(hist) + j].some

\* two different values were pushed and three pop_tail calls made
C21_Witness ==
    /\ FillThenDrain
    /\ Filled(hist) = 2
    /\ Len(hist) = 5
    /\ hist[1].arg # hist[2].arg

MaxProbe == 3      \* largest search_limit handed to exist_near_head

Probe(v, k) == exist_near_head(list, HEAD, v, k)

\* the call that returned index i, live now, and the calls after it
Inserted(i) ==
    CHOOSE n \in 1..Len(hist) :
        /\ hist[n].op \in {"push_head", "push_tail"} /\ hist[n].ok /\ hist[n].val = i
        /\ \A m \in (n + 1)..Len(hist) :
              ~(hist[m].op \in {"push_head", "push_tail"} /\ hist[m].val = i)

PromotedSince(i) ==
    \E m \in (Inserted(i) + 1)..Len(hist) : hist[m].op = "promote" /\ hist[m].arg = i

\* the push_head and promote calls made since slot i was inserted
PlacedInFront(i) ==
    Cardinality({m \in (Inserted(i) + 1)..Len(hist) : hist[m].op \in {"push_head", "promote"}})

\* C22 as stated, for search limits of at least one and a value held by one
\* slot only: the probe is true right after push_head(v), and false for the
\* value of a slot that has had more than k push_head or promote calls placed
\* in front of it since its insertion and was not promoted itself.
C22_MembershipProbe_Original ==
    lop.ok =>
        \A k \in 1..MaxProbe :
            /\ (lop.op = "push_head") => Probe(lop.arg, k).found
            /\ \A i \in Live :
                  ( /\ \A j \in Live \ {i} : given[j] # given[i]
                    /\ ~PromotedSince(i)
                    /\ PlacedInFront(i) > k ) => ~Probe(given[i], k).found

\* C22, amended: exist_near_head(v, k) never panics on a list used through
\* live indices and is true exactly when one of the first k elements of the
\* forward order holds v; so it is true right after push_head(v) for k >= 1,
\* and false for a value all of whose slots have at least k elements in front.
C22_MembershipProbe ==
    lop.ok =>
        LET values == ForwardValues(list)
        IN  \A k \in 0..MaxProbe : \A v \in Values :
                LET probe == Probe(v, k)
                IN  /\ probe.ok
                    /\ probe.found <=> \E n \in 1..Len(values) : n <= k /\ values[n] = v
                    /\ (lop.op = "push_head" /\ lop.arg = v /\ k >= 1) => probe.found

\* after two promotions the oldest slot is third of three: a probe of two
\* elements misses its value, a probe of three finds it
C22_Witness ==
    /\ lop.ok /\ lop.op = "promote"
    /\ Len(hist) = 5
    /\ hist[4].op = "promote" /\ hist[4].arg # lop.arg
    /\ Len(Forward(list)) = 3
    /\ \E i \in Live :
          /\ Forward(list)[3] = i
          /\ \A j \in Live \ {i} : given[j] # given[i]
          /\ ~PromotedSince(i)
          /\ PlacedInFront(i) = 4
          /\ ~Probe(given[i], 2).found
          /\ Probe(given[i], 3).found

-----------------------------------------------------------------------------
(* One LinkedListIter at a time.  iter() borrows the list, so no operation   *)
(* changes the list while the iterator is in use; next() and next_back() may *)
(* be called in any interleaving.  A call yields the index it moved to and   *)
(* the data found there, or None.  self.len -= 1 on a zero len panics in a   *)
(* build with overflow checks and wraps to usize::MAX in one without.        *)

Yield(at, data) == [at |-> at, data |-> data]
None == Yield(NULL, 0)

\* LinkedList::iter
LinkedList_iter(l) == [list |-> l, head |-> HEAD, tail |-> TAIL, len |-> len(l)]

IterRet(it, out)  == [it |-> it, out |-> out, ok |-> TRUE]
IterPanic(it)     == [it |-> it, out |-> None, ok |-> FALSE]

\* self.len -= 1, then the yield: what a call that moved to index can do
Moved(it, index) ==
    IF it.len > 0
    THEN {IterRet([it EXCEPT !.len = it.len - 1], Yield(index, Nd(it.list, index).data))}
    ELSE {IterRet([it EXCEPT !.len = NULL], Yield(index, Nd(it.list, index).data)),
          IterPanic(it)}

\* faulty variant of Iterator::next: the walk ends one slot early
Iterator_next_Short(it) ==
    LET next_index == Nd(it.list, it.head).next
    IN  IF next_index = TAIL \/ next_index = NULL \/ Nd(it.list, next_index).next = TAIL
        THEN {IterRet(it, None)}
        ELSE Moved([it EXCEPT !.head = next_index], next_index)

\* Iterator::next for LinkedListIter: the outcomes one call can have
Iterator_next(it) ==
    IF ~InBounds(it.list, it.head) THEN {IterPanic(it)}
    ELSE LET next_index == Nd(it.list, it.head).next
         IN  IF next_index = TAIL \/ next_index = NULL THEN {IterRet(it, None)}
             ELSE IF ~InBounds(it.list, next_index)
                  THEN {IterPanic([it EXCEPT !.head = next_index])}
                  ELSE Moved([it EXCEPT !.head = next_index], next_index)

\* DoubleEndedIterator::next_back for LinkedListIter
DoubleEndedIterator_next_back(it) ==
    IF ~InBounds(it.list, it.tail) THEN {IterPanic(it)}
    ELSE LET prev_index == Nd(it.list, it.tail).prev
         IN  IF prev_index = HEAD \/ prev_index = NULL THEN {IterRet(it, None)}
             ELSE IF ~InBounds(it.list, prev_index)
                  THEN {IterPanic([it EXCEPT !.tail = prev_index])}
                  ELSE Moved([it EXCEPT !.tail = prev_index], prev_index)

\* the list is changed only while no iterator borrows it
Mutate == iter = <<>> /\ ListNext

IterNew ==
    /\ iter = <<>>
    /\ lop.ok
    /\ iter' = LinkedList_iter(list)
    /\ fwd' = <<>> /\ bwd' = <<>> /\ ipc' = "run"
    /\ UNCHANGED <<hist, listVars, outsideUse>>

\* a None is recorded once: further calls at the same end return None again
IterNextCall ==
    /\ iter # <<>> /\ ipc = "run"
    /\ \E r \in Iterator_next(iter) :
          /\ iter' = r.it
          /\ ipc' = IF r.ok THEN "run" ELSE "panic"
          /\ fwd' = IF r.ok /\ ~(r.out = None /\ fwd # <<>> /\ fwd[Len(fwd)] = None)
                    THEN Append(fwd, r.out) ELSE fwd
    /\ UNCHANGED <<bwd, hist, listVars, outsideUse>>

IterNextBackCall ==
    /\ iter # <<>> /\ ipc = "run"
    /\ \E r \in DoubleEndedIterator_next_back(iter) :
          /\ iter' = r.it
          /\ ipc' = IF r.ok THEN "run" ELSE "panic"
          /\ bwd' = IF r.ok /\ ~(r.out = None /\ bwd # <<>> /\ bwd[Len(bwd)] = None)
                    THEN Append(bwd, r.out) ELSE bwd
    /\ UNCHANGED <<fwd, hist, listVars, outsideUse>>

\* the iterator is dropped and the borrow ends
IterDrop ==
    /\ iter # <<>> /\ ipc = "run"
    /\ iter' = <<>> /\ fwd' = <<>> /\ bwd' = <<>> /\ ipc' = "off"
    /\ UNCHANGED <<hist, listVars, outsideUse>>

IterNext == Mutate \/ IterNew \/ IterNextCall \/ IterNextBackCall \/ IterDrop

SpecIter == ListInit /\ [][IterNext]_vars

\* every arrangement of the live indices in which each is linked to the next
Arrangements ==
    {q \in [1..Cardinality(Live) -> Live] :
        /\ \A m, n \in DOMAIN q : q[m] = q[n] => m = n
        /\ \A n \in DOMAIN q :
              /\ Nd(list, q[n]).prev = (IF n = 1 THEN HEAD ELSE q[n - 1])
              /\ Nd(list, q[n]).next = (IF n = Len(q) THEN TAIL ELSE q[n + 1])}

Ended(q)   == q # <<>> /\ q[Len(q)] = None
Yielded(q) == IF Ended(q) THEN SubSeq(q, 1, Len(q) - 1) ELSE q
Slots(q)   == [n \in 1..Len(q) |-> q[n].at]

\* only next(), or only next_back(), has been called on the iterator
OnlyForward  == bwd = <<>> /\ iter.tail = TAIL
OnlyBackward == fwd = <<>> /\ iter.head = HEAD

\* C23: a forward iteration run to its end yields the values of exactly the
\* live elements in head-to-tail order, a backward iteration run to its end
\* yields them in the reverse order, no call panics, and the list the iterator
\* borrows is the list as it is (links, free list, len()).
C23_Iteration ==
    iter # <<>> =>
        /\ iter.list = list
        /\ (OnlyForward \/ OnlyBackward) => ipc = "run"
        /\ \A n \in 1..Len(Yielded(fwd)) : fwd[n].data = given[fwd[n].at]
        /\ \A n \in 1..Len(Yielded(bwd)) : bwd[n].data = given[bwd[n].at]
        /\ (OnlyForward /\ Ended(fwd)) =>
              /\ Slots(Yielded(fwd)) \in Arrangements
              /\ Len(Yielded(fwd)) = len(list)
        /\ (OnlyBackward /\ Ended(bwd)) =>
              /\ Reversed(Slots(Yielded(bwd))) \in Arrangements
              /\ Len(Yielded(bwd)) = len(list)

\* a backward iteration over two elements of different values has ended, on a
\* list that holds a free slot
C23_Witness ==
    /\ iter # <<>>
    /\ OnlyBackward
    /\ Ended(bwd)
    /\ Len(bwd) = 3
    /\ bwd[1].data # bwd[2].data
    /\ list.free # <<>>

\* C31: double-ended iteration is bounded: over every interleaving of next()
\* and next_back() calls on one iterator, no element is yielded from both
\* ends, the number of yielded items never exceeds len(), and the remaining
\* length reported by size_hint never drops below zero (the counter is len()
\* less the items yielded, and no subtraction underflows).
C31_DoubleEndedBounded ==
    iter # <<>> =>
        /\ Members(Slots(Yielded(fwd))) \cap Members(Slots(Yielded(bwd))) = {}
        /\ Len(Yielded(fwd)) + Len(Yielded(bwd)) <= len(list)
        /\ ipc = "run"
        /\ iter.len = len(list) - (Len(Yielded(fwd)) + Len(Yielded(bwd)))

\* what holds instead: each end on its own walks the whole chain, whatever the
\* other end has yielded, so each end yields no slot twice and at most len()
\* items; the counter is right while the items of both ends do not exceed
\* len(), and a call panics only on a counter that is zero
C31_EachEndBounded ==
    iter # <<>> =>
        /\ NoRepeat(Slots(Yielded(fwd))) /\ Len(Yielded(fwd)) <= len(list)
        /\ NoRepeat(Slots(Yielded(bwd))) /\ Len(Yielded(bwd)) <= len(list)
        /\ Len(Yielded(fwd)) + Len(Yielded(bwd)) <= len(list) =>
              iter.len = len(list) - (Len(Yielded(fwd)) + Len(Yielded(bwd)))
        /\ ipc = "panic" =>
              /\ iter.len = 0
              /\ Len(Yielded(fwd)) + Len(Yielded(bwd)) = len(list)

\* the sentinels and the chained slots have the links they had before the call
NothingRelinked ==
    /\ list.head = before.head
    /\ list.tail = before.tail
    /\ Len(list.data_nodes) = Len(before.data_nodes)
    /\ \A i \in Members(Forward(before)) :
          /\ Nd(list, i).prev = Nd(before, i).prev
          /\ Nd(list, i).next = Nd(before, i).next

\* the index was removed, by remove or pop_tail, and not issued again since
WasFreed(index) == index \in Members(before.free)

\* C24: remove(0) and remove(1) panic, and so do remove(i) and promote(i) for
\* an index i that was removed and not reissued; none of these calls returns,
\* and none changes a link of a sentinel or of a chained slot.
C24_PreconditionsFatal ==
    ( \/ lop.op = "remove" /\ lop.arg \in {HEAD, TAIL}
      \/ lop.op \in {"remove", "promote"} /\ WasFreed(lop.arg) ) =>
        /\ ~lop.ok
        /\ NothingRelinked

\* promote of a freed index on a list that holds two chained slots
C24_Witness ==
    /\ lop.op = "promote"
    /\ WasFreed(lop.arg)
    /\ ~lop.ok
    /\ Len(Forward(before)) = 2

\* the run has made push_head, promote (of live indices) and pop_tail calls only
LruOnly ==
    \A n \in 1..Len(hist) :
        \/ hist[n].op \in {"push_head", "pop_tail"}
        \/ hist[n].op = "promote" /\ hist[n].arg \in hist[n].live

\* the last call before the n-th that pushed index i, or promoted it
Touched(i, n) ==
    CHOOSE m \in 1..(n - 1) :
        /\ \/ hist[m].op = "push_head" /\ hist[m].val = i
           \/ hist[m].op = "promote" /\ hist[m].arg = i
        /\ \A m2 \in (m + 1)..(n - 1) :
              ~ \/ hist[m2].op = "push_head" /\ hist[m2].val = i
                \/ hist[m2].op = "promote" /\ hist[m2].arg = i

\* the last call before the n-th that returned index i, and the value it pushed
PushedAs(i, n) ==
    hist[CHOOSE m \in 1..(n - 1) :
            /\ hist[m].op = "push_head" /\ hist[m].val = i
            /\ \A m2 \in (m + 1)..(n - 1) : ~(hist[m2].op = "push_head" /\ hist[m2].val = i)].arg

\* the live index whose last push_head or promote before the n-th call is oldest
LeastRecent(n) ==
    CHOOSE i \in hist[n].live : \A j \in hist[n].live : Touched(i, n) <= Touched(j, n)

\* C25: on a list changed only by push_head, promote and pop_tail, pop_tail
\* returns none exactly when the list is empty and changes nothing then;
\* otherwise it returns the value of the live element whose last push_head or
\* promote is the oldest, puts that element's index on the free list and
\* lowers len() by one.
C25_EvictionOrder ==
    (LruOnly /\ lop.op = "pop_tail") =>
        /\ lop.ok
        /\ lop.some <=> lop.live # {}
        /\ ~lop.some => list = before
        /\ lop.some =>
              /\ lop.val = PushedAs(LeastRecent(Len(hist)), Len(hist))
              /\ list.free = Append(before.free, LeastRecent(Len(hist)))
              /\ Live = lop.live \ {LeastRecent(Len(hist))}
              /\ len(list) = len(before) - 1

\* the element evicted was pushed last but the others were promoted after it
C25_Witness ==
    /\ LruOnly /\ lop.op = "pop_tail" /\ lop.some
    /\ Len(hist) = 5
    /\ hist[2].op = "push_head" /\ hist[2].val = lop.arg
    /\ hist[3].op = "promote" /\ hist[4].op = "promote"
    /\ hist[1].arg # hist[2].arg

\* the removals of the run, before its last call, whose index no later push
\* has handed out again
FreedAt ==
    {m \in 1..(Len(hist) - 1) :
        /\ hist[m].op \in {"remove", "pop_tail"} /\ hist[m].ok /\ hist[m].some
        /\ \A m2 \in (m + 1)..(Len(hist) - 1) :
              ~(hist[m2].op \in {"push_head", "push_tail"} /\ hist[m2].val = hist[m].arg)}

MostRecentlyFreed == hist[CHOOSE m \in FreedAt : \A m2 \in FreedAt : m2 <= m].arg

\* the largest len() the list has had: after construction and after each call
LargestLen ==
    CHOOSE n \in 0..MaxSlots :
        /\ n \in {Cardinality(hist[m].live) : m \in 1..Len(hist)} \cup {Cardinality(Live)}
        /\ \A m \in 1..Len(hist) : Cardinality(hist[m].live) <= n
        /\ Cardinality(Live) <= n

\* C26: a push made while the free list is non-empty returns the most
\* recently freed index and appends no slot; a push made while it is empty
\* returns 2 + the number of slots created so far and appends one slot; the
\* number of slots created never exceeds the largest len() the list has had.
C26_SlotReuse ==
    /\ (IsPush /\ hist # <<>>) =>
          IF before.free # <<>>
          THEN /\ FreedAt # {}
               /\ lop.val = MostRecentlyFreed
               /\ Len(list.data_nodes) = Len(before.data_nodes)
               /\ list.free = SubSeq(before.free, 1, Len(before.free) - 1)
          ELSE /\ lop.val = OFFSET + Len(before.data_nodes)
               /\ Len(list.data_nodes) = Len(before.data_nodes) + 1
               /\ created = Len(before.data_nodes) + 1
    /\ created = Len(list.data_nodes)
    /\ created <= LargestLen

\* a push reuses the later of two freed indices, which was not the higher one
C26_Witness ==
    /\ IsPush /\ Len(hist) = 5
    /\ Len(before.free) = 2
    /\ lop.val = 2
    /\ hist[4].op = "remove" /\ hist[4].arg = 2
    /\ created = 2

\* C29: peek(i) never panics, returns the value pushed under i when i is a
\* live index, and returns none for every other index: the sentinels, the
\* indices beyond the arena, NULL, and the indices removed and not reissued.
C29_PeekSeparatesLive ==
    \A i \in Indices \cup {NULL} :
        /\ peek(list, i).ok
        /\ i \in Live => (peek(list, i).some /\ peek(list, i).val = given[i])
        /\ i \notin Live => ~peek(list, i).some

\* C29 without the removed indices: what peek does keep apart
C29_PeekBoundsOnly ==
    \A i \in Indices \cup {NULL} :
        /\ peek(list, i).ok
        /\ i \in Live => (peek(list, i).some /\ peek(list, i).val = given[i])
        /\ (i \notin Live /\ i \notin Members(list.free)) => ~peek(list, i).some
        /\ i \in Members(list.free) => peek(list, i).some

=============================================================================
